---------------------------- MODULE Spec2Model ----------------------------
(***************************************************************************)
(* Model of the synthetic-data generation service: the job registry and    *)
(* the POST /api/generate and cancel handlers (server index, generation    *)
(* service), the per-table generation loop of                               *)
(* DataGenerator.generateSyntheticData, the row-count arithmetic of        *)
(* config.js / deterministicGenerator.js and the key repair of             *)
(* foreignKeyRepair.js.                                                    *)
(***************************************************************************)
EXTENDS Integers, Sequences, FiniteSets, TLC

(***************************************************************************)
(* Bounds of the model                                                     *)
(***************************************************************************)
MaxCapJobs == 4     \* jobs submitted in the several-jobs specification
MaxTables == 2      \* tables of a parsed schema
MaxAIRows == 1      \* usable rows one external call can yield
MaxRows == 2        \* rows of a table handed to the key repair
MaxOrderTables == 3 \* tables of a schema handed to the dependency orderer
MaxSchemaFKs == 3   \* foreign keys of such a schema, all tables together
MaxDetFKs == 2      \* foreign keys of a schema handed to the deterministic generator
MaxDraws == 2       \* Math.random draws told apart within one call
MaxStreamTables == 2    \* tables of a streamed schema
MaxStreamRows == 3      \* rows of a streamed table
MaxDDLTables == 2       \* CREATE TABLE blocks of a parsed DDL
MaxEnumValues == 2      \* values listed in one ENUM(...)
MaxYields == 2          \* variant and grammar combinations that parse a block
MaxKeyColumns == 2      \* columns of a table whose key is inferred

(***************************************************************************)
(* Program constants                                                       *)
(***************************************************************************)
MAX_CONCURRENT_GENERATIONS == 3
DEFAULT_NUM_RECORDS == 10
MAX_ROWS_PER_TABLE == 1000

Min(a, b) == IF a < b THEN a ELSE b
Max(a, b) == IF a > b THEN a ELSE b

RECURSIVE Fact(_)
Fact(n) == IF n <= 1 THEN 1 ELSE n * Fact(n - 1)

\* progress is a fraction of 1; the model keeps it as a numerator over
\* ProgressDen so that 0.1 + 0.7 * (i / n) is an integer for every n <= MaxTables
ProgressUnit == Fact(MaxTables)
ProgressDen == 10 * ProgressUnit

TableIdx == 1..MaxTables

(***************************************************************************)
(* Row-count inputs.  A count of the request config is either undefined    *)
(* or a number.                                                            *)
(***************************************************************************)
Undef == [def |-> FALSE, n |-> 0]
Num(n) == [def |-> TRUE, n |-> n]
CountInputs ==
  {Undef} \cup {Num(n) : n \in {0 - 1, 0, 1, 2, MAX_ROWS_PER_TABLE + 1}}

\* JavaScript truthiness of a count: undefined and 0 are falsy
Truthy(v) == v.def /\ v.n # 0

\* config.js clampRowCount
clampRowCountBelowZero(requested) ==
  IF ~Truthy(requested) THEN DEFAULT_NUM_RECORDS
  ELSE Min(requested.n, MAX_ROWS_PER_TABLE)
clampRowCount(requested) ==
  IF ~Truthy(requested) THEN DEFAULT_NUM_RECORDS
  ELSE Min(Max(1, requested.n), MAX_ROWS_PER_TABLE)

\* generateSyntheticData: const { numRecords = CONFIG.DEFAULT_NUM_RECORDS } = config
numRecordsDefaulted(numRecords) ==
  IF numRecords.def THEN numRecords ELSE Num(DEFAULT_NUM_RECORDS)

\* generateSyntheticData: effectiveGlobal = clampRowCount(numRecords)
effectiveGlobal(numRecords) == clampRowCount(numRecordsDefaulted(numRecords))

\* a || b on counts
OrElse(a, b) == IF Truthy(a) THEN a ELSE b

\* generateDeterministicData: rowCount = perTable[t] ?? (config.globalRowCount || 25);
\* a table without definition is skipped, rows of a table are pushed for
\* i = 0 .. rowCount-1
deterministicRowCount(globalRowCount, perTableOverride) ==
  LET globalCount == IF globalRowCount # 0 THEN globalRowCount ELSE 25
      rowCount == IF perTableOverride.def THEN perTableOverride.n ELSE globalCount
  IN  Max(0, rowCount)

\* the per-table deterministic fallback of the AI path, with its last-resort
\* guard (Array.from({ length: target }) when the fallback came back empty)
fallbackRowsGlobalOnly(numRecords, override) ==
  deterministicRowCount(effectiveGlobal(numRecords), Undef)
fallbackRows(numRecords, override) ==
  LET wanted == OrElse(override, Num(effectiveGlobal(numRecords)))
      fb == deterministicRowCount(clampRowCount(wanted), Undef)
  IN  IF fb = 0
        THEN Max(0, clampRowCount(OrElse(wanted, Num(1))))
        ELSE fb

\* the deterministic path (USE_AI=false): every override is clamped first
deterministicPathRows(numRecords, override) ==
  deterministicRowCount(
    effectiveGlobal(numRecords),
    IF override.def THEN Num(clampRowCount(override)) ELSE Undef)


(***************************************************************************)
(* Values, rows and schemas                                                *)
(***************************************************************************)
\* a scalar of a row: null (or a missing key: the code tests null and
\* undefined together), a number, or a string with its length
Null == [type |-> "null", v |-> 0, len |-> 0]
N(k) == [type |-> "number", v |-> k, len |-> 0]
Str(k, len) == [type |-> "string", v |-> k, len |-> len]

IsNull(v) == v.type = "null"
Get(r, c) == IF c \in DOMAIN r THEN r[c] ELSE Null
Set(r, c, v) == [x \in DOMAIN r \cup {c} |-> IF x = c THEN v ELSE r[x]]

Put(f, k, v) == [x \in DOMAIN f \cup {k} |-> IF x = k THEN v ELSE f[x]]
Remove(f, k) == [x \in DOMAIN f \ {k} |-> f[x]]
InSeq(v, seq) == \E x \in 1..Len(seq) : seq[x] = v

\* JSON.stringify of a scalar: a number and a string never share a key
JSONstringify(v) == <<v.type, v.v>>

NoColumn == "(none)"
Column(name, type) == [name |-> name, type |-> type]
FK(columns, referenceTable, referenceColumns) ==
  [columns |-> columns, referenceTable |-> referenceTable,
   referenceColumns |-> referenceColumns]

\* schema.tables as Object.entries lists it: the table definitions in
\* declaration order
TableNames(tables) == {tables[k].name : k \in 1..Len(tables)}
Def(tables, name) ==
  tables[CHOOSE k \in 1..Len(tables) : tables[k].name = name]

\* lower(name) === 'id', lower(name).endsWith('_id'),
\* /int|serial/.test(lower(type)) on the names and types of the model
IsId(name) == name \in {"id", "ID"}
EndsWithId(name) == name \in {"a_id", "b_id", "owner_id"}
IntOrSerial(type) == type \in {"int", "integer", "bigint", "serial"}

\* cols.find(pred): the name of the first column satisfying pred
FirstColumn(columns, matching) ==
  LET hits == {k \in 1..Len(columns) : columns[k] \in matching}
  IN  IF hits = {} THEN NoColumn
      ELSE columns[CHOOSE k \in hits : \A m \in hits : k <= m].name

(***************************************************************************)
(* foreignKeyRepair.js                                                     *)
(***************************************************************************)
inferSinglePK(tableName, def) ==
  IF Len(def.primaryKey) = 1 THEN def.primaryKey[1]
  ELSE LET cols == {def.columns[k] : k \in 1..Len(def.columns)}
           direct == FirstColumn(def.columns,
                       {c \in cols : IsId(c.name) /\ IntOrSerial(c.type)})
       IN  IF direct # NoColumn THEN direct
           ELSE FirstColumn(def.columns,
                  {c \in cols : EndsWithId(c.name) /\ IntOrSerial(c.type)})

\* lines 34-42: a table with a declared single-column key and no rows gets
\* one row { [pkCol]: 1 }
RECURSIVE synthesizeParents(_, _, _)
synthesizeParents(tables, data, k) ==
  IF k > Len(tables) THEN data
  ELSE LET def == tables[k] IN
       IF Len(def.primaryKey) = 1 /\ Len(data[def.name]) = 0
         THEN synthesizeParents(tables,
                [data EXCEPT ![def.name] = <<Set(<< >>, def.primaryKey[1], N(1))>>],
                k + 1)
         ELSE synthesizeParents(tables, data, k + 1)

\* lines 50-71: the scan of a key column, left at the first null, over-long
\* or repeated value; without such a value, a column with no number in it
\* needs the rewrite too
LongString == 40
RECURSIVE scanNeedsRewrite(_, _, _, _, _)
scanNeedsRewrite(rows, pkCol, k, seen, numericCount) ==
  IF k > Len(rows) THEN numericCount = 0
  ELSE LET v == Get(rows[k], pkCol) IN
       IF IsNull(v) \/ (v.type = "string" /\ v.len > LongString) THEN TRUE
       ELSE IF JSONstringify(v) \in seen THEN TRUE
       ELSE scanNeedsRewrite(rows, pkCol, k + 1, seen \cup {JSONstringify(v)},
              numericCount + (IF v.type = "number" THEN 1 ELSE 0))

\* lines 72-76: for (const r of rows) r[pkCol] = i++
sequentialKeys(rows, pkCol) ==
  [k \in 1..Len(rows) |-> Set(rows[k], pkCol, N(k))]

\* lines 78-91: rows still without a key value are numbered 1, 2, ...
RECURSIVE fillMissingKeys(_, _, _, _)
fillMissingKeys(rows, pkCol, k, next) ==
  IF k > Len(rows) THEN rows
  ELSE IF IsNull(Get(rows[k], pkCol))
    THEN fillMissingKeys([rows EXCEPT ![k] = Set(rows[k], pkCol, N(next))],
                         pkCol, k + 1, next + 1)
    ELSE fillMissingKeys(rows, pkCol, k + 1, next)

repairKeyColumn(rows, pkCol) ==
  LET rewritten == IF scanNeedsRewrite(rows, pkCol, 1, {}, 0)
                     THEN sequentialKeys(rows, pkCol) ELSE rows
  IN  fillMissingKeys(rewritten, pkCol, 1, 1)

\* pass 1, lines 45-92
RECURSIVE pass1(_, _, _)
pass1(tables, data, k) ==
  IF k > Len(tables) THEN data
  ELSE LET def == tables[k]
           pkCol == inferSinglePK(def.name, def)
       IN  IF pkCol = NoColumn \/ Len(data[def.name]) = 0
             THEN pass1(tables, data, k + 1)
             ELSE pass1(tables,
                    [data EXCEPT ![def.name] = repairKeyColumn(data[def.name], pkCol)],
                    k + 1)

\* new Set(rows.map(r => r[pkCol]).filter(non-null)) in insertion order
RECURSIVE distinctValues(_, _, _, _)
distinctValues(rows, col, k, acc) ==
  IF k > Len(rows) THEN acc
  ELSE LET v == Get(rows[k], col) IN
       IF IsNull(v) \/ (\E x \in 1..Len(acc) : acc[x] = v)
         THEN distinctValues(rows, col, k + 1, acc)
         ELSE distinctValues(rows, col, k + 1, Append(acc, v))

\* lines 95-111: the key values of every table with a single-column key, as
\* they stand after pass 1
parentPkSets(tables, data) ==
  [name \in {n \in TableNames(tables) :
               inferSinglePK(n, Def(tables, n)) # NoColumn} |->
     distinctValues(data[name], inferSinglePK(name, Def(tables, name)), 1, << >>)]

\* every rewritten row given the first parent value
RECURSIVE reassignToFirst(_, _, _, _, _, _)
reassignToFirst(rows, childCol, parentSet, parentValues, k, rrIdx) ==
  IF k > Len(rows) THEN rows
  ELSE LET val == Get(rows[k], childCol) IN
       IF IsNull(val) \/ ~InSeq(val, parentSet)
         THEN reassignToFirst(
                [rows EXCEPT ![k] = Set(rows[k], childCol, parentValues[1])],
                childCol, parentSet, parentValues, k + 1, rrIdx + 1)
         ELSE reassignToFirst(rows, childCol, parentSet, parentValues, k + 1, rrIdx)

\* lines 140-149: the round-robin rewrite of one foreign-key column
RECURSIVE reassign(_, _, _, _, _, _)
reassign(rows, childCol, parentSet, parentValues, k, rrIdx) ==
  IF k > Len(rows) THEN rows
  ELSE LET val == Get(rows[k], childCol) IN
       IF IsNull(val) \/ ~InSeq(val, parentSet)
         THEN reassign(
                [rows EXCEPT ![k] =
                   Set(rows[k], childCol, parentValues[(rrIdx % Len(parentValues)) + 1])],
                childCol, parentSet, parentValues, k + 1, rrIdx + 1)
         ELSE reassign(rows, childCol, parentSet, parentValues, k + 1, rrIdx)

\* lines 117-151: the foreign keys of one table, in declaration order; st is
\* [data, sets]
RECURSIVE repairForeignKeys(_, _, _, _)
repairForeignKeys(tables, def, f, st) ==
  IF f > Len(def.foreignKeys) THEN st
  ELSE LET fk == def.foreignKeys[f]
           parentTable == fk.referenceTable
           skip == repairForeignKeys(tables, def, f + 1, st)
       IN
       IF Len(fk.columns) # 1 \/ Len(fk.referenceColumns) # 1 THEN skip
       ELSE IF parentTable \notin DOMAIN st.sets THEN skip
       ELSE LET childCol == fk.columns[1]
                parentSet == st.sets[parentTable]
                declared == Def(tables, parentTable).primaryKey
            IN
            IF Len(parentSet) = 0 /\ Len(declared) = 0 THEN skip
            ELSE IF Len(parentSet) = 0
              THEN \* data[parentTable] = [{ [pkCol]: 1 }]; parentValues = [1]
                   LET d1 == [st.data EXCEPT
                                ![parentTable] = <<Set(<< >>, declared[1], N(1))>>]
                       d2 == [d1 EXCEPT ![def.name] =
                                reassign(d1[def.name], childCol, <<N(1)>>, <<N(1)>>, 1, 0)]
                   IN  repairForeignKeys(tables, def, f + 1,
                         [data |-> d2,
                          sets |-> [st.sets EXCEPT ![parentTable] = <<N(1)>>]])
              ELSE repairForeignKeys(tables, def, f + 1,
                     [st EXCEPT !.data[def.name] =
                        reassign(st.data[def.name], childCol, parentSet, parentSet, 1, 0)])

\* pass 2, lines 114-152
RECURSIVE pass2(_, _, _)
pass2(tables, st, k) ==
  IF k > Len(tables) THEN st.data
  ELSE IF Len(st.data[tables[k].name]) = 0 THEN pass2(tables, st, k + 1)
  ELSE pass2(tables, repairForeignKeys(tables, tables[k], 1, st), k + 1)

autoRepairForeignKeys(tables, data) ==
  LET d0 == synthesizeParents(tables, data, 1)
      d1 == pass1(tables, d0, 1)
  IN  pass2(tables, [data |-> d1, sets |-> parentPkSets(tables, d1)], 1)

(***************************************************************************)
(* _executeJob (generationService.js): normalization and the inline        *)
(* auto-repair phase between generation and validation.  st is [data,      *)
(* audit]: audit tells whether pkRewriteCounts or fkRewriteCounts got an   *)
(* entry                                                                   *)
(***************************************************************************)
\* schemaNormalizer.js normalizeDataset: a dataset that is null is returned
\* as it is; a table the data lacks (or holds no array for) has no rows; a
\* row that is null, no object or an array (one of the scalars of the model)
\* becomes {}; every other row is cut down to the columns of the schema,
\* absent ones filled with null
IsObject(row) == ~({"type", "v", "len"} \subseteq DOMAIN row)
normalizeDataset(tables, data) ==
  IF {"type", "v", "len"} \subseteq DOMAIN data THEN data
  ELSE
  [name \in TableNames(tables) |->
     LET rows == IF name \in DOMAIN data THEN data[name] ELSE << >> IN
     [k \in 1..Len(rows) |->
        IF ~IsObject(rows[k]) THEN << >>
        ELSE [c \in {Def(tables, name).columns[x].name :
                       x \in 1..Len(Def(tables, name).columns)} |->
                Get(rows[k], c)]]]

\* pass 1: declared single-column keys only
RECURSIVE autoFixPass1(_, _, _)
autoFixPass1(tables, st, k) ==
  IF k > Len(tables) THEN st
  ELSE LET def == tables[k]
           rows == st.data[def.name]
       IN  IF Len(def.primaryKey) # 1 \/ Len(rows) = 0
             THEN autoFixPass1(tables, st, k + 1)
           ELSE IF scanNeedsRewrite(rows, def.primaryKey[1], 1, {}, 0)
             THEN autoFixPass1(tables,
                    [data |-> [st.data EXCEPT
                                 ![def.name] = sequentialKeys(rows, def.primaryKey[1])],
                     audit |-> TRUE],
                    k + 1)
             ELSE autoFixPass1(tables, st, k + 1)

\* the key values of the tables with a declared single-column key
autoFixPkSets(tables, data) ==
  [name \in {n \in TableNames(tables) : Len(Def(tables, n).primaryKey) = 1} |->
     distinctValues(data[name], Def(tables, name).primaryKey[1], 1, << >>)]

\* pass 2 for the foreign keys of one table
RECURSIVE autoFixTable(_, _, _, _)
autoFixTable(def, f, sets, st) ==
  IF f > Len(def.foreignKeys) THEN st
  ELSE LET fk == def.foreignKeys[f]
           skip == autoFixTable(def, f + 1, sets, st)
       IN
       IF Len(fk.columns) # 1 \/ Len(fk.referenceColumns) # 1 THEN skip
       ELSE IF fk.referenceTable \notin DOMAIN sets THEN skip
       ELSE IF Len(sets[fk.referenceTable]) = 0 THEN skip
       ELSE LET parentSet == sets[fk.referenceTable]
                rows == reassign(st.data[def.name], fk.columns[1],
                                 parentSet, parentSet, 1, 0)
            IN  autoFixTable(def, f + 1, sets,
                  [data |-> [st.data EXCEPT ![def.name] = rows],
                   audit |-> st.audit \/ rows # st.data[def.name]])

RECURSIVE autoFixPass2(_, _, _, _)
autoFixPass2(tables, sets, st, k) ==
  IF k > Len(tables) THEN st
  ELSE IF Len(st.data[tables[k].name]) = 0
    THEN autoFixPass2(tables, sets, st, k + 1)
    ELSE autoFixPass2(tables, sets, autoFixTable(tables[k], 1, sets, st), k + 1)

\* if (config?.autoFixForeignKeys !== false) { ... }
autoFixForeignKeys(tables, data, option) ==
  IF option = "false" THEN [data |-> data, audit |-> FALSE]
  ELSE LET st1 == autoFixPass1(tables, [data |-> data, audit |-> FALSE], 1)
       IN  autoFixPass2(tables, autoFixPkSets(tables, st1.data), st1, 1)

(***************************************************************************)
(* topologicalSortTables (deterministicGenerator.js) and                   *)
(* orderTablesForGeneration (dataGenerator.js)                             *)
(***************************************************************************)
NameSeq(tables) == [k \in 1..Len(tables) |-> tables[k].name]

\* parent && parent !== t && graph[parent]: the tables of the schema that t
\* references, itself left out
Parents(tables, t) ==
  {Def(tables, t).foreignKeys[f].referenceTable :
     f \in 1..Len(Def(tables, t).foreignKeys)}
    \cap (TableNames(tables) \ {t})

\* graph[parent]: a Set filled while the tables are walked in declaration
\* order, so its members come out in declaration order
RECURSIVE childrenOf(_, _, _)
childrenOf(tables, parent, k) ==
  IF k > Len(tables) THEN << >>
  ELSE IF parent \in Parents(tables, tables[k].name)
    THEN <<tables[k].name>> \o childrenOf(tables, parent, k + 1)
    ELSE childrenOf(tables, parent, k + 1)

\* graph[t].forEach: inDegree[dep]--, and dep joins the queue at 0
RECURSIVE release(_, _, _)
release(deps, k, st) ==
  IF k > Len(deps) THEN st
  ELSE LET dep == deps[k]
           deg == st.inDegree[dep] - 1
       IN  release(deps, k + 1,
             [inDegree |-> [st.inDegree EXCEPT ![dep] = deg],
              queue |-> IF deg = 0 THEN Append(st.queue, dep) ELSE st.queue])

\* while (queue.length) { t = queue.shift(); ordered.push(t); ... }
RECURSIVE drain(_, _, _)
drain(tables, st, ordered) ==
  IF Len(st.queue) = 0 THEN ordered
  ELSE LET t == Head(st.queue) IN
       drain(tables,
             release(childrenOf(tables, t, 1), 1,
                     [st EXCEPT !.queue = Tail(st.queue)]),
             Append(ordered, t))

\* the remaining tables appended from the last declared to the first
RECURSIVE appendRemainingBackwards(_, _, _)
appendRemainingBackwards(names, k, ordered) ==
  IF k > Len(names) THEN ordered
  ELSE LET t == names[Len(names) + 1 - k] IN
       IF InSeq(t, ordered) THEN appendRemainingBackwards(names, k + 1, ordered)
       ELSE appendRemainingBackwards(names, k + 1, Append(ordered, t))

\* tables.forEach(t => { if (!ordered.includes(t)) ordered.push(t) })
RECURSIVE appendRemaining(_, _, _)
appendRemaining(names, k, ordered) ==
  IF k > Len(names) THEN ordered
  ELSE IF InSeq(names[k], ordered) THEN appendRemaining(names, k + 1, ordered)
  ELSE appendRemaining(names, k + 1, Append(ordered, names[k]))

topologicalSortTables(tables) ==
  LET names == NameSeq(tables)
      inDegree == [t \in TableNames(tables) |-> Cardinality(Parents(tables, t))]
      queue == SelectSeq(names, LAMBDA t : inDegree[t] = 0)
      ordered == drain(tables, [inDegree |-> inDegree, queue |-> queue], << >>)
  IN  IF Len(ordered) # Len(names) THEN appendRemaining(names, 1, ordered)
      ELSE ordered

orderTablesForGeneration(tables) ==
  LET names == NameSeq(tables)
      indegree == [t \in TableNames(tables) |-> Cardinality(Parents(tables, t))]
      queue == SelectSeq(names, LAMBDA t : indegree[t] = 0)
  IN  appendRemaining(names, 1,
        drain(tables, [inDegree |-> indegree, queue |-> queue], << >>))

(***************************************************************************)
(* deterministicGenerator.js: the seeded generator                         *)
(***************************************************************************)
\* createRNG: s is a 32-bit unsigned integer, kept as two 16-bit halves;
\* s = (s * 1664525 + 1013904223) >>> 0, and rng() is s / 0xffffffff
Half == 65536
MulHi == 25        \* 1664525 = 25 * 65536 + 26125
MulLo == 26125
AddHi == 15470     \* 1013904223 = 15470 * 65536 + 62303
AddLo == 62303
createRNG(seed) == [hi |-> (seed \div Half) % Half, lo |-> seed % Half]
rngNext(s) ==
  LET p == s.lo * MulLo
      lo == (p % Half) + AddLo
      hi == (p \div Half) + ((s.hi * MulLo) % Half) + ((s.lo * MulHi) % Half)
              + AddHi + (lo \div Half)
  IN  [hi |-> hi % Half, lo |-> lo % Half]

\* rng() < p for p = halves / 2
rngBelow(s, halves) ==
  CASE halves <= 0 -> FALSE
    [] halves = 1 -> s.hi < Half \div 2
    [] OTHER -> ~(s.hi = Half - 1 /\ s.lo = Half - 1)

\* Math.floor(rng() * n): the quotient of s * n by 2^32 - 1
rngIndex(s, n) ==
  LET lo == s.lo * n
      mid == s.hi * n + (lo \div Half)
      q == mid \div Half
  IN  IF mid % Half = Half - 1 /\ lo % Half >= (Half - 1) - q THEN q + 1 ELSE q

\* arr[k] of a JavaScript array: undefined past its end
At(arr, k) == IF k + 1 \in 1..Len(arr) THEN arr[k + 1] ELSE Null

\* Math.random() as the k-th entry of a sequence of draws, each 0 or 1/2
MathRandom(draws, k) == draws[(k % Len(draws)) + 1]
\* arr[Math.floor(Math.random() * arr.length)]
randChoice(arr, half) == At(arr, (half * Len(arr)) \div 2)

\* inferPrimaryKey: the declared key, of any length, else a heuristic column
inferPrimaryKey(tableName, tblDef) ==
  IF Len(tblDef.primaryKey) > 0 THEN tblDef.primaryKey
  ELSE LET cols == {tblDef.columns[k] : k \in 1..Len(tblDef.columns)}
           direct == FirstColumn(tblDef.columns,
                       {c \in cols : IsId(c.name) /\ IntOrSerial(c.type)})
           tableId == FirstColumn(tblDef.columns,
                        {c \in cols : EndsWithId(c.name) /\ IntOrSerial(c.type)})
       IN  IF direct # NoColumn THEN <<direct>>
           ELSE IF tableId # NoColumn THEN <<tableId>>
           ELSE << >>

\* buildFkSources: table -> column -> { table, column }; a later foreign key
\* on the same column replaces an earlier one
FkSourcesOf(tblDef, colName) ==
  LET fks == tblDef.foreignKeys
      hits == {h \in UNION {{<<f, x>> : x \in 1..Len(fks[f].columns)} :
                              f \in 1..Len(fks)} :
                 fks[h[1]].columns[h[2]] = colName}
  IN  {h \in hits : \A g \in hits : g[1] < h[1] \/ (g[1] = h[1] /\ g[2] <= h[2])}

\* the non-null values of a column over rows, in row order
RECURSIVE pool(_, _, _)
pool(rows, col, k) ==
  IF k > Len(rows) THEN << >>
  ELSE IF IsNull(Get(rows[k], col)) THEN pool(rows, col, k + 1)
  ELSE <<Get(rows[k], col)>> \o pool(rows, col, k + 1)

RowsOf(generated, t) == IF t \in DOMAIN generated THEN generated[t] ELSE << >>

\* the length of `${tableName}_${colName}_${rowIndex + 1}` for the one-letter
\* table names and the column names of the model, rows below 10
TextLength(colName) == 1 + 1 + (IF colName = "id" THEN 2 ELSE 3) + 1 + 1
TypeIs(type, kinds) == type \in kinds

\* synthValue; st carries the rows generated so far and the number of
\* Math.random draws taken
synthValue(colName, colDef, rowIndex, tableName, tblDef, st, draws) ==
  LET src == FkSourcesOf(tblDef, colName)
      fk == tblDef.foreignKeys[(CHOOSE h \in src : TRUE)[1]]
      x == (CHOOSE h \in src : TRUE)[2]
      candidates == IF src = {} THEN << >>
                    ELSE pool(RowsOf(st.generated, fk.referenceTable),
                              fk.referenceColumns[x], 1)
      drawn == [st EXCEPT !.m = st.m + 1]
  IN  IF Len(candidates) > 0
        THEN [v |-> randChoice(candidates, MathRandom(draws, st.m)), st |-> drawn]
      ELSE IF IntOrSerial(colDef.type)
        THEN [v |-> N(rowIndex + 1), st |-> st]
      ELSE IF TypeIs(colDef.type, {"boolean"})
        THEN [v |-> [type |-> "boolean", v |-> (rowIndex + 1) % 2, len |-> 0],
              st |-> st]
      ELSE IF TypeIs(colDef.type, {"date"})
        THEN [v |-> Str(<<"day", MathRandom(draws, st.m)>>, 10), st |-> drawn]
      ELSE IF TypeIs(colDef.type, {"text", "varchar", "uuid"})
        THEN [v |-> Str(<<tableName, colName, rowIndex + 1>>,
                        Min(TextLength(colName), 50)),
              st |-> st]
      ELSE [v |-> Str(<<colName, rowIndex + 1>>, TextLength(colName) - 2), st |-> st]

\* const nullProbConfig = config.nullProbability || { default: 0 }.  A
\* configured map is [default, tables], tables giving for a table its own
\* default and the probabilities of its columns; probabilities are in halves
NotConfigured == [configured |-> FALSE, default |-> Undef, tables |-> << >>]
nullProbConfig(config) ==
  IF config.nullProbability.configured THEN config.nullProbability
  ELSE [configured |-> TRUE, default |-> Num(0), tables |-> << >>]
\* nullProbConfig[tableName]?.default ?? nullProbConfig.default ?? 0
tableNullProb(npc, tableName) ==
  IF tableName \in DOMAIN npc.tables /\ npc.tables[tableName].default.def
    THEN npc.tables[tableName].default.n
  ELSE IF npc.default.def THEN npc.default.n
  ELSE 0
\* nullProbConfig[tableName]?.[colName] ?? tableNullProb
colNullProb(npc, tableName, colName) ==
  IF /\ tableName \in DOMAIN npc.tables
     /\ colName \in DOMAIN npc.tables[tableName].columns
     /\ npc.tables[tableName].columns[colName].def
    THEN npc.tables[tableName].columns[colName].n
  ELSE tableNullProb(npc, tableName)

\* the columns of one row, in declaration order; halves is nullProbConfig
RECURSIVE generateRow(_, _, _, _, _, _, _, _)
generateRow(tblDef, pkCols, i, k, row, st, halves, draws) ==
  IF k > Len(tblDef.columns) THEN [row |-> row, st |-> st]
  ELSE LET colDef == tblDef.columns[k]
           colName == colDef.name
           nullable == IF "nullable" \in DOMAIN colDef THEN colDef.nullable ELSE TRUE
           allowNull == nullable /\ ~InSeq(colName, pkCols)
           s1 == IF allowNull THEN rngNext(st.s) ELSE st.s
           st1 == [st EXCEPT !.s = s1]
           makeNull == allowNull /\ rngBelow(s1, colNullProb(halves, tblDef.name, colName))
           synth == synthValue(colName, colDef, i, tblDef.name, tblDef, st1, draws)
       IN  IF makeNull
             THEN generateRow(tblDef, pkCols, i, k + 1, Set(row, colName, Null),
                              st1, halves, draws)
           ELSE IF InSeq(colName, pkCols) /\ IntOrSerial(colDef.type)
             THEN generateRow(tblDef, pkCols, i, k + 1, Set(row, colName, N(i + 1)),
                              st1, halves, draws)
           ELSE generateRow(tblDef, pkCols, i, k + 1, Set(row, colName, synth.v),
                            synth.st, halves, draws)

\* for (let i = 0; i < rowCount; i++) { ...; generated[tableName].push(row) }
RECURSIVE generateRows(_, _, _, _, _, _, _)
generateRows(tblDef, pkCols, i, rowCount, st, halves, draws) ==
  IF i >= rowCount THEN st
  ELSE LET r == generateRow(tblDef, pkCols, i, 1, << >>, st, halves, draws)
       IN  generateRows(tblDef, pkCols, i + 1, rowCount,
             [r.st EXCEPT !.generated[tblDef.name] = Append(@, r.row)],
             halves, draws)

\* order.forEach: the tables in topological order
RECURSIVE generateTables(_, _, _, _, _, _)
generateTables(tables, order, k, st, config, draws) ==
  IF k > Len(order) THEN st
  ELSE LET tblDef == Def(tables, order[k])
           rowCount == deterministicRowCount(config.globalRowCount,
                                             config.perTable[order[k]])
           st0 == [st EXCEPT !.generated = Put(st.generated, order[k], << >>)]
       IN  generateTables(tables, order, k + 1,
             generateRows(tblDef, inferPrimaryKey(order[k], tblDef), 0, rowCount,
                          st0, nullProbConfig(config), draws),
             config, draws)

\* parentPool: the non-null values of every referenced column of the parent
\* rows, each once, in the order a Map keeps them
RECURSIVE parentPool(_, _, _, _)
parentPool(parentRows, referenceColumns, x, acc) ==
  IF x > Len(referenceColumns) THEN acc
  ELSE parentPool(parentRows, referenceColumns, x + 1,
                  distinctValues(parentRows, referenceColumns[x], 1, acc))

\* one child row: every column of the foreign key whose value is null or not
\* in the pool gets poolValues[Math.floor(rng() * poolValues.length)]
RECURSIVE reconcileRow(_, _, _, _, _)
reconcileRow(row, columns, x, poolValues, s) ==
  IF x > Len(columns) THEN [row |-> row, s |-> s]
  ELSE LET val == Get(row, columns[x])
           s1 == rngNext(s)
       IN  IF IsNull(val) \/ ~InSeq(val, poolValues)
             THEN reconcileRow(
                    Set(row, columns[x], At(poolValues, rngIndex(s1, Len(poolValues)))),
                    columns, x + 1, poolValues, s1)
             ELSE reconcileRow(row, columns, x + 1, poolValues, s)

RECURSIVE reconcileRows(_, _, _, _, _)
reconcileRows(rows, k, columns, poolValues, s) ==
  IF k > Len(rows) THEN [rows |-> rows, s |-> s]
  ELSE LET r == reconcileRow(rows[k], columns, 1, poolValues, s)
       IN  reconcileRows([rows EXCEPT ![k] = r.row], k + 1, columns, poolValues, r.s)

\* the foreign keys of one table, in declaration order
RECURSIVE reconcileTable(_, _, _)
reconcileTable(tblDef, f, st) ==
  IF f > Len(tblDef.foreignKeys) THEN st
  ELSE LET fk == tblDef.foreignKeys[f]
           parentRows == RowsOf(st.generated, fk.referenceTable)
           poolValues == parentPool(parentRows, fk.referenceColumns, 1, << >>)
           r == reconcileRows(RowsOf(st.generated, tblDef.name), 1, fk.columns,
                              poolValues, st.s)
       IN  IF Len(parentRows) = 0 \/ Len(poolValues) = 0
              \/ tblDef.name \notin DOMAIN st.generated
             THEN reconcileTable(tblDef, f + 1, st)
             ELSE reconcileTable(tblDef, f + 1,
                    [st EXCEPT !.generated[tblDef.name] = r.rows, !.s = r.s])

\* the reconciliation pass: the tables in declaration order
RECURSIVE reconcile(_, _, _)
reconcile(tables, k, st) ==
  IF k > Len(tables) THEN st
  ELSE reconcile(tables, k + 1, reconcileTable(tables[k], 1, st))

\* generateDeterministicData(schema, config) with config.seed given; draws
\* are the values Math.random returns during the call
generateDeterministicData(tables, config, draws) ==
  LET st0 == [generated |-> << >>, s |-> createRNG(config.seed), m |-> 0]
      st1 == generateTables(tables, topologicalSortTables(tables), 1, st0,
                            config, draws)
  IN  reconcile(tables, 1, st1).generated

(***************************************************************************)
(* validateDeterministicData                                               *)
(***************************************************************************)
\* the values of a column over the rows of a table, nulls left out
ColumnValues(rows, col) ==
  {Get(rows[k], col) : k \in 1..Len(rows)} \ {Null}

\* the child rows of one foreign-key column that the validator reports:
\* non-null values missing from the index on the referenced column
fkViolations(data, child, fk, x) ==
  {k \in 1..Len(data[child]) :
     LET val == Get(data[child][k], fk.columns[x]) IN
     /\ ~IsNull(val)
     /\ val \notin ColumnValues(data[fk.referenceTable], fk.referenceColumns[x])}

\* Primary key uniqueness: the rows whose complete key repeats the key of an
\* earlier row (rows with a null key part are skipped)
pkDuplicates(tblDef, rows) ==
  LET keyVals(k) == [x \in 1..Len(tblDef.primaryKey) |->
                       JSONstringify(Get(rows[k], tblDef.primaryKey[x]))]
      complete(k) == \A x \in 1..Len(tblDef.primaryKey) :
                       ~IsNull(Get(rows[k], tblDef.primaryKey[x]))
  IN  IF Len(tblDef.primaryKey) = 0 THEN {}
      ELSE {k \in 1..Len(rows) :
              complete(k) /\ \E m \in 1..(k - 1) :
                               complete(m) /\ keyVals(m) = keyVals(k)}

\* NOT NULL: the null cells of the columns marked nullable: false
notNullViolations(tblDef, rows) ==
  {<<c, k>> \in (1..Len(tblDef.columns)) \X (1..Len(rows)) :
     /\ "nullable" \in DOMAIN tblDef.columns[c]
     /\ tblDef.columns[c].nullable = FALSE
     /\ IsNull(Get(rows[k], tblDef.columns[c].name))}

\* +((covered / total) * 100).toFixed(2), in hundredths of a percent
coveredPct(covered, total) ==
  IF total = 0 THEN 0 ELSE (((covered * 100000) \div total) + 5) \div 10

\* the coverage entries of a table: one for every column of every foreign
\* key, in declaration order
RECURSIVE fkCoverage(_, _, _, _)
fkCoverage(data, tblDef, f, x) ==
  IF f > Len(tblDef.foreignKeys) THEN << >>
  ELSE IF x > Len(tblDef.foreignKeys[f].columns)
    THEN fkCoverage(data, tblDef, f + 1, 1)
  ELSE LET fk == tblDef.foreignKeys[f]
           rows == data[tblDef.name]
           total == Cardinality({k \in 1..Len(rows) :
                                   ~IsNull(Get(rows[k], fk.columns[x]))})
           violations == Cardinality(fkViolations(data, tblDef.name, fk, x))
       IN  <<[fk |-> <<fk.columns[x], fk.referenceTable, fk.referenceColumns[x]>>,
              violations |-> violations,
              coveredPct |-> coveredPct(total - violations, total)]>>
           \o fkCoverage(data, tblDef, f, x + 1)

RECURSIVE SumOf(_, _)
SumOf(seq, field) ==
  IF Len(seq) = 0 THEN 0 ELSE Head(seq)[field] + SumOf(Tail(seq), field)

\* the report of one table
tableReport(data, tblDef) ==
  LET rows == data[tblDef.name]
      coverage == fkCoverage(data, tblDef, 1, 1)
  IN  [rowCount |-> Len(rows),
       pkDuplicates |-> Cardinality(pkDuplicates(tblDef, rows)),
       fkViolations |-> SumOf(coverage, "violations"),
       notNullViolations |-> Cardinality(notNullViolations(tblDef, rows)),
       fkCoverage |-> [e \in 1..Len(coverage) |->
                         [fk |-> coverage[e].fk,
                          coveredPct |-> coverage[e].coveredPct]]]

\* validateDeterministicData: what it returns (errors by their number) and
\* the dataset as the call leaves it; the function assigns to neither the
\* schema nor the rows
validateAndDropDuplicates(tables, data) ==
  LET reports == [k \in 1..Len(tables) |-> tableReport(data, tables[k])]
  IN  [data |-> [t \in DOMAIN data |->
                   IF t \in TableNames(tables)
                     THEN SelectSeq(data[t], LAMBDA r :
                            \A k \in pkDuplicates(Def(tables, t), data[t]) :
                              data[t][k] # r)
                     ELSE data[t]],
       passed |-> TRUE, errors |-> 0, tables |-> << >>,
       summary |-> [pkDuplicates |-> SumOf(reports, "pkDuplicates")]]
validateDeterministicData(tables, data) ==
  LET reports == [k \in 1..Len(tables) |-> tableReport(data, tables[k])]
      summary == [pkDuplicates |-> SumOf(reports, "pkDuplicates"),
                  fkViolations |-> SumOf(reports, "fkViolations"),
                  notNullViolations |-> SumOf(reports, "notNullViolations")]
      errors == summary.pkDuplicates + summary.fkViolations
                  + summary.notNullViolations
  IN  [data |-> data,
       passed |-> errors = 0,
       errors |-> errors,
       tables |-> [k \in 1..Len(tables) |->
                     [name |-> tables[k].name, report |-> reports[k]]],
       summary |-> summary]

(***************************************************************************)
(* State                                                                   *)
(***************************************************************************)
VARIABLES
  useAI,              \* process.env.USE_AI !== 'false'
  hasGenAI,           \* DataGenerator.genAI is set (GEMINI_API_KEY present)
  activeGenerations,  \* the in-flight counter of the server
  jobs,               \* the job registry: job id -> job
  abortControllers,   \* job id -> TRUE when its controller has aborted
  exec,               \* job id -> position and locals of its _executeJob task
  lastResponse,       \* the HTTP status answered by the step just taken (0: not a request)
  schema,             \* the tables of the schema passed to a library function
  given,              \* the dataset as the caller passed it
  data,               \* the dataset, which the function changes in place
  phase,              \* "idle", "called", then how far the calls have come
  out,                \* what the calls returned, in order
  jobSubscribers,     \* job id -> the sockets subscribed to the job
  jobWatchers,        \* the job ids that have a timeout handle registered
  timers,             \* job id -> the pending setTimeout(tick, 700) of the job
  emitted             \* job id -> what the lifecycle monitor has broadcast

monitorVars == <<jobSubscribers, jobWatchers, timers, emitted>>

jobVars == <<useAI, hasGenAI, activeGenerations, jobs, abortControllers, exec,
             lastResponse, monitorVars>>

fnVars == <<schema, given, data, phase, out>>

\* no library function is being called on its own
NoCall ==
  /\ schema = << >>
  /\ given = << >>
  /\ data = << >>
  /\ phase = "idle"
  /\ out = << >>

\* the events the generator hands to its callbacks: table and index by the
\* position i of the table in the order of orderTablesForGeneration
onTableStart(i, n) == [event |-> "tableStart", index |-> i, total |-> n]
onTableComplete(i, n) == [event |-> "tableComplete", index |-> i, total |-> n]
progressEvent(i, n) ==
  [event |-> "progress", index |-> i, total |-> n, completed |-> i, ratio |-> <<i, n>>]

NoError == "null"
NoResult == [set |-> FALSE, datasetId |-> FALSE, repair |-> "ok",
             violations |-> FALSE]
TerminalStatuses == {"completed", "error", "cancelled"}

\* generationService.js createJob
createJob ==
  [status |-> "created", progress |-> 0, error |-> NoError,
   result |-> NoResult, cancelled |-> FALSE]

\* requests of the job specifications: the row counts matter to the row-count
\* specification only
Requests ==
  [numRecords : {Undef, Num(2)}, perTable : {[t \in TableIdx |-> Undef]},
   saveName : BOOLEAN]

\* schemas SchemaParser.parse can return: n tables in generation order;
\* parse injects an empty columns object into a table that has none
ParsedSchemas ==
  {[nTables |-> n, hasColumns |-> [t \in TableIdx |-> t <= n]] : n \in 0..MaxTables}

\* schemas a direct caller can hand to generateSyntheticData: a table may lack
\* its columns object
AnySchemas ==
  {s \in [nTables : 1..MaxTables, hasColumns : [TableIdx -> BOOLEAN]] :
     \A t \in TableIdx : s.hasColumns[t] => t <= s.nTables}

\* the locals of a task: its position, the request, the parsed schema, the
\* loop index, generatedData (table -> number of rows), retriesMeta (tables
\* filled by the deterministic fallback), meta; and, as history, the external
\* calls started per table, the place an exception escaped from and the table
\* boundary at which a cancel was accepted
newExec(req) ==
  [pc |-> "queued", req |-> req, nTables |-> 0,
   hasColumns |-> [t \in TableIdx |-> FALSE], i |-> 0,
   rows |-> [t \in TableIdx |-> 0], generated |-> {}, fallback |-> {},
   calls |-> [t \in TableIdx |-> 0], meta |-> NoResult,
   thrownAt |-> "none", cancelAt |-> 0, inFlight |-> {},
   events |-> << >>, firstRows |-> [t \in TableIdx |-> 0]]


(***************************************************************************)
(* The job sockets of the server: jobSubscribers, jobWatchers, emitToJob   *)
(* and monitorJobLifecycle                                                  *)
(***************************************************************************)
MaxSockets == 2     \* sockets connected to the server
MaxTimers == 2      \* pending timeouts of one job told apart
Sockets == 1..MaxSockets

\* the server has started: no socket has subscribed, nothing is watched
NoSockets ==
  /\ jobSubscribers = << >>
  /\ jobWatchers = {}
  /\ timers = << >>
  /\ emitted = << >>

SubscribersOf(subs, jobId) == IF jobId \in DOMAIN subs THEN subs[jobId] ELSE {}
TimersOf(pending, jobId) == IF jobId \in DOMAIN pending THEN pending[jobId] ELSE 0

\* the broadcasts of the monitor for one job, as history: the job:completed
\* events so far, and whether a job:status followed a job:completed
NoEvents == [completed |-> 0, statusAfterCompleted |-> FALSE]
EmittedFor(jobId) == IF jobId \in DOMAIN emitted THEN emitted[jobId] ELSE NoEvents

\* emitToJob(jobId, event, payload) called by the monitor
emitToJob(history, event) ==
  IF event = "job:status"
    THEN [history EXCEPT !.statusAfterCompleted = @ \/ history.completed > 0]
    ELSE [history EXCEPT !.completed = @ + 1]

\* tick: the job is read from the registry; a job that is gone ends the
\* chain, a job in a terminal status gets job:status and job:completed and
\* ends the chain, any other gets job:status and a new timeout
tick(jobId, registry, pending) ==
  IF jobId \notin DOMAIN registry
    THEN /\ jobWatchers' = jobWatchers \ {jobId}
         /\ timers' = pending
         /\ UNCHANGED emitted
    ELSE LET status == emitToJob(EmittedFor(jobId), "job:status") IN
         IF registry[jobId].status \in TerminalStatuses
           THEN /\ emitted' = Put(emitted, jobId, emitToJob(status, "job:completed"))
                /\ jobWatchers' = jobWatchers \ {jobId}
                /\ timers' = pending
           ELSE /\ emitted' = Put(emitted, jobId, status)
                /\ timers' = Put(pending, jobId, TimersOf(pending, jobId) + 1)
                /\ jobWatchers' = jobWatchers \cup {jobId}

\* monitorJobLifecycle without its first line
monitorJobLifecycleUnguarded(jobId, registry) == tick(jobId, registry, timers)

\* monitorJobLifecycle: a job that is watched already is left to its chain
monitorJobLifecycle(jobId, registry) ==
  IF jobId \in jobWatchers
    THEN UNCHANGED <<jobWatchers, timers, emitted>>
    ELSE tick(jobId, registry, timers)

\* a timeout of the job's chain fires
Tick(jobId) ==
  /\ TimersOf(timers, jobId) > 0
  /\ tick(jobId, jobs, Put(timers, jobId, timers[jobId] - 1))
  /\ UNCHANGED <<fnVars, jobSubscribers, useAI, hasGenAI, activeGenerations,
                 jobs, abortControllers, exec>>
  /\ lastResponse' = 0

\* socket.on('subscribe:job'): the socket joins the subscribers and is sent
\* job:subscribed; it alone is sent the status of a job in a terminal status
\* (and job:completed); any other job is handed to the monitor
SubscribeJob(sock, jobId) ==
  /\ TimersOf(timers, jobId) < MaxTimers
  /\ jobSubscribers' =
       Put(jobSubscribers, jobId, SubscribersOf(jobSubscribers, jobId) \cup {sock})
  /\ IF jobId \in DOMAIN jobs /\ jobs[jobId].status \in TerminalStatuses
       THEN UNCHANGED <<jobWatchers, timers, emitted>>
       ELSE monitorJobLifecycle(jobId, jobs)
  /\ UNCHANGED <<fnVars, useAI, hasGenAI, activeGenerations, jobs,
                 abortControllers, exec>>
  /\ lastResponse' = 0

\* one socket leaves the subscribers of one job; the last one takes the
\* entry with it
leave(subs, sock, jobId) ==
  IF jobId \notin DOMAIN subs THEN subs
  ELSE IF subs[jobId] \ {sock} = {} THEN Remove(subs, jobId)
  ELSE [subs EXCEPT ![jobId] = @ \ {sock}]

\* socket.on('unsubscribe:job')
UnsubscribeJob(sock, jobId) ==
  /\ jobSubscribers' = leave(jobSubscribers, sock, jobId)
  /\ UNCHANGED <<fnVars, useAI, hasGenAI, activeGenerations, jobs,
                 abortControllers, exec, jobWatchers, timers, emitted>>
  /\ lastResponse' = 0

\* socket.on('disconnect'): removeSocketFromAllJobs
removeSocketFromAllJobs(subs, sock) ==
  [jobId \in {x \in DOMAIN subs : subs[x] # {sock}} |-> subs[jobId] \ {sock}]
Disconnect(sock) ==
  /\ jobSubscribers' = removeSocketFromAllJobs(jobSubscribers, sock)
  /\ UNCHANGED <<fnVars, useAI, hasGenAI, activeGenerations, jobs,
                 abortControllers, exec, jobWatchers, timers, emitted>>
  /\ lastResponse' = 0

Init ==
  /\ useAI \in BOOLEAN
  /\ NoSockets
  /\ hasGenAI \in BOOLEAN
  /\ activeGenerations = 0
  /\ jobs = << >>
  /\ abortControllers = << >>
  /\ exec = << >>
  /\ lastResponse = 0
  /\ NoCall

(***************************************************************************)
(* POST /api/generate and GenerationService.generateAsync                  *)
(***************************************************************************)
\* the handler runs to completion without suspending: the counter is raised
\* before generateAsync and lowered in the finally of the same handler
PostGenerate(maxJobs, reqs) ==
  \E req \in reqs, ddlOk \in BOOLEAN :
    LET jobId == Cardinality(DOMAIN jobs) + 1 IN
    /\ jobId <= maxJobs
    /\ IF activeGenerations >= MAX_CONCURRENT_GENERATIONS
         THEN /\ lastResponse' = 429
              /\ UNCHANGED <<activeGenerations, jobs, abortControllers, exec>>
              /\ UNCHANGED <<jobWatchers, timers, emitted>>
         ELSE IF ~ddlOk
           THEN /\ lastResponse' = 400
                /\ UNCHANGED <<activeGenerations, jobs, abortControllers, exec>>
                /\ UNCHANGED <<jobWatchers, timers, emitted>>
           ELSE /\ jobs' = Put(jobs, jobId, [createJob EXCEPT !.status = "running"])
                /\ abortControllers' = Put(abortControllers, jobId, FALSE)
                /\ exec' = Put(exec, jobId, newExec(req))
                /\ activeGenerations' =
                     Max(0, (activeGenerations + 1) - 1)
                /\ monitorJobLifecycle(jobId, jobs')
                /\ lastResponse' = 200
    /\ UNCHANGED <<fnVars, jobSubscribers, useAI, hasGenAI>>

(***************************************************************************)
(* GenerationService._executeJob                                           *)
(***************************************************************************)
\* catch (err): cancelled when the job is flagged or the message matches /aborted/i
CaughtFailed(job, messageSaysAborted) ==
  IF job.cancelled \/ messageSaysAborted
    THEN [job EXCEPT !.status = "cancelled", !.error = "Cancelled"]
    ELSE [job EXCEPT !.status = "failed", !.error = "message"]
Caught(job, messageSaysAborted) ==
  IF job.cancelled \/ messageSaysAborted
    THEN [job EXCEPT !.status = "cancelled", !.error = "Cancelled"]
    ELSE [job EXCEPT !.status = "error", !.error = "message"]

\* the task ends: finally { abortControllers.delete(job.id) }
Thrown(j, job, e, where) ==
  /\ jobs' = [jobs EXCEPT ![j] = job]
  /\ exec' = [exec EXCEPT ![j] = [e EXCEPT !.pc = "done", !.thrownAt = where]]
  /\ abortControllers' = Remove(abortControllers, j)

Finished(j, job, e) ==
  /\ jobs' = [jobs EXCEPT ![j] = job]
  /\ exec' = [exec EXCEPT ![j] = [e EXCEPT !.pc = "done"]]
  /\ abortControllers' = Remove(abortControllers, j)

\* the job as it stands between the assignment of its status and progress
\* and the assignment of its result
CompletedBeforeResult(job, meta, datasetId) ==
  [job EXCEPT !.status = "completed", !.progress = ProgressDen]

Completed(job, meta, datasetId) ==
  [job EXCEPT !.status = "completed", !.progress = ProgressDen,
              !.result = [meta EXCEPT !.set = TRUE, !.datasetId = datasetId]]

\* from the return of generateSyntheticData to the await of saveDataset:
\* normalization and inline repair (failures recorded in meta), validation
\* (its report attached to meta), progress 0.9, then persistence when a
\* saveName was given
ValidatedProgress == 9 * ProgressUnit
AfterGeneration(j, job, e) ==
  \E repair \in {"ok", "normalizationError", "autoFixForeignKeysError"},
     violations \in BOOLEAN :
    LET meta == [e.meta EXCEPT !.repair = repair, !.violations = violations]
        job9 == [job EXCEPT !.progress = ValidatedProgress]
    IN  /\ repair = "normalizationError" => useAI
        /\ IF e.req.saveName
          THEN /\ jobs' = [jobs EXCEPT ![j] = job9]
               /\ exec' = [exec EXCEPT ![j] = [e EXCEPT !.pc = "saving", !.meta = meta]]
               /\ UNCHANGED abortControllers
          ELSE Finished(j, Completed(job9, meta, FALSE), [e EXCEPT !.meta = meta])

\* generateSyntheticData returns: its promise is resolved and the await of
\* _executeJob resumes in a later microtask
Generated(j, job, e) ==
  /\ jobs' = [jobs EXCEPT ![j] = job]
  /\ exec' = [exec EXCEPT ![j] = [e EXCEPT !.pc = "generated"]]
  /\ UNCHANGED abortControllers

\* top of the per-table loop: the caller's onTableStart runs for table i, or
\* the loop is over
Iterate(j, job, e, i) ==
  IF i > e.nTables
    THEN Generated(j, job, e)
    ELSE /\ jobs' = [jobs EXCEPT ![j] = job]
         /\ exec' = [exec EXCEPT ![j] =
              [e EXCEPT !.pc = "tableStart", !.i = i,
                        !.events = Append(e.events, onTableStart(i, e.nTables))]]
         /\ UNCHANGED abortControllers

\* _executeJob resumes with the generated dataset
GenerationSettles(j) ==
  /\ j \in DOMAIN exec
  /\ exec[j].pc = "generated"
  /\ AfterGeneration(j, jobs[j], exec[j])
  /\ UNCHANGED <<fnVars, monitorVars, useAI, hasGenAI, activeGenerations>>
  /\ lastResponse' = 0

\* setImmediate fires: _executeJob starts and suspends on parseDDL
StartExecute(j) ==
  /\ j \in DOMAIN exec
  /\ exec[j].pc = "queued"
  /\ exec' = [exec EXCEPT ![j].pc = "parsing"]
  /\ UNCHANGED <<fnVars, monitorVars, useAI, hasGenAI, activeGenerations, jobs, abortControllers>>
  /\ lastResponse' = 0

\* parseDDL settles; on success the task runs on into generateSyntheticData
\* up to its first suspension
ParseSettles(j, schemas) ==
  /\ j \in DOMAIN exec
  /\ exec[j].pc = "parsing"
  /\ \/ \E messageSaysAborted \in BOOLEAN :
          Thrown(j, Caught(jobs[j], messageSaysAborted), exec[j], "parseDDL")
     \/ \E parsed \in schemas :
          LET job == [jobs[j] EXCEPT !.progress = ProgressUnit]
              e == [exec[j] EXCEPT !.nTables = parsed.nTables,
                                   !.hasColumns = parsed.hasColumns]
          IN  IF ~useAI
                THEN \* deterministic path: no suspension, no abort check
                     Generated(j, job,
                       [e EXCEPT
                          !.rows = [t \in TableIdx |->
                             IF t <= parsed.nTables
                               THEN deterministicPathRows(e.req.numRecords,
                                                          e.req.perTable[t])
                               ELSE 0],
                          !.generated = 1..parsed.nTables])
                ELSE IF parsed.nTables = 0
                  THEN \* throw new Error('Parsed schema has no tables')
                       Thrown(j, Caught(job, FALSE), e, "noTables")
                  ELSE Iterate(j, job, e, 1)
  /\ UNCHANGED <<fnVars, monitorVars, useAI, hasGenAI, activeGenerations>>
  /\ lastResponse' = 0


\* callbacks.onProgress of POST /api/generate: 0.1 + 0.7 * ratio, ratio = i / n
ScaledProgressWide(i, n) == ProgressUnit + (9 * ProgressUnit * i) \div n
ScaledProgress(i, n) == ProgressUnit + (7 * ProgressUnit * i) \div n

onProgress(job, i, n) ==
  IF job.status = "running" /\ ScaledProgress(i, n) > job.progress
    THEN [job EXCEPT !.progress = ScaledProgress(i, n)]
    ELSE job

\* table i is assigned its rows and the caller's onTableComplete runs
RowsAssigned(j, e, n) ==
  /\ exec' = [exec EXCEPT ![j] =
       [e EXCEPT !.pc = "tableComplete", !.rows[e.i] = n,
                 !.generated = e.generated \cup {e.i},
                 !.events = Append(e.events, onTableComplete(e.i, e.nTables))]]
  /\ UNCHANGED <<jobs, abortControllers>>

\* no usable rows from the service: the deterministic fallback fills table i
FellBack(j, e) ==
  RowsAssigned(j, [e EXCEPT !.fallback = e.fallback \cup {e.i}],
               fallbackRows(e.req.numRecords, e.req.perTable[e.i]))

\* abortSignal?.aborted as the task of job j sees it
abortedNever(j) == FALSE
aborted(j) == abortControllers[j]

\* onTableStart has returned: the abort check, the missing-columns skip, then
\* the first external call of the table
TableBegin(j) ==
  /\ j \in DOMAIN exec
  /\ exec[j].pc = "tableStart"
  /\ LET e == exec[j] IN
     IF aborted(j)
       THEN \* throw new Error('Generation aborted')
            Thrown(j, Caught(jobs[j], TRUE), e, "aborted")
       ELSE IF ~e.hasColumns[e.i]
         THEN \* generatedData[tableName] = []; continue
              Iterate(j, jobs[j],
                [e EXCEPT !.rows[e.i] = 0, !.generated = e.generated \cup {e.i}],
                e.i + 1)
         ELSE IF hasGenAI
           THEN /\ exec' = [exec EXCEPT ![j] =
                     [e EXCEPT !.pc = "call1", !.calls[e.i] = 1,
                               !.inFlight = e.inFlight \cup {<<e.i, 1>>}]]
                /\ UNCHANGED <<jobs, abortControllers>>
           ELSE \* no model: the call throws at once, no retry, fallback
                FellBack(j, e)
  /\ UNCHANGED <<fnVars, monitorVars, useAI, hasGenAI, activeGenerations>>
  /\ lastResponse' = 0

\* Promise.race([model.generateContent(prompt), timeoutPromise]) has settled
\* for call c of job j: by the call itself (a response or a transport error),
\* or by the timer, and then the call, which nothing aborts, is still running
raceSettled(e, c, timedOut) ==
  IF timedOut THEN e ELSE [e EXCEPT !.inFlight = e.inFlight \ {c}]

\* the first attempt settles with n usable rows (0: error, timeout, unparsable
\* text, empty array or no usable entry); with none the retry starts at once
FirstSettlesThenRetries(j) ==
  /\ j \in DOMAIN exec
  /\ exec[j].pc = "call1"
  /\ \E n \in 0..MaxAIRows, timedOut \in BOOLEAN :
       /\ timedOut => n = 0
       /\ LET e == [raceSettled(exec[j], <<exec[j].i, 1>>, timedOut)
                      EXCEPT !.firstRows[exec[j].i] = n] IN
          /\ exec' = [exec EXCEPT ![j] =
               [e EXCEPT !.pc = "retry", !.calls[e.i] = 2,
                         !.inFlight = e.inFlight \cup {<<e.i, 2>>}]]
          /\ UNCHANGED <<jobs, abortControllers>>
  /\ UNCHANGED <<fnVars, monitorVars, useAI, hasGenAI, activeGenerations>>
  /\ lastResponse' = 0
FirstSettles(j) ==
  /\ j \in DOMAIN exec
  /\ exec[j].pc = "call1"
  /\ \E n \in 0..MaxAIRows, timedOut \in BOOLEAN :
       /\ timedOut => n = 0
       /\ LET e == [raceSettled(exec[j], <<exec[j].i, 1>>, timedOut)
                      EXCEPT !.firstRows[exec[j].i] = n] IN
          IF n > 0
            THEN RowsAssigned(j, e, n)
            ELSE /\ exec' = [exec EXCEPT ![j] =
                      [e EXCEPT !.pc = "retry", !.calls[e.i] = 2,
                                !.inFlight = e.inFlight \cup {<<e.i, 2>>}]]
                 /\ UNCHANGED <<jobs, abortControllers>>
  /\ UNCHANGED <<fnVars, monitorVars, useAI, hasGenAI, activeGenerations>>
  /\ lastResponse' = 0

\* the retry settles; with no usable rows the deterministic fallback fills the table
RetrySettles(j) ==
  /\ j \in DOMAIN exec
  /\ exec[j].pc = "retry"
  /\ \E n \in 0..MaxAIRows, timedOut \in BOOLEAN :
       /\ timedOut => n = 0
       /\ LET e == raceSettled(exec[j], <<exec[j].i, 2>>, timedOut) IN
          IF n > 0
            THEN RowsAssigned(j, e, n)
            ELSE FellBack(j, e)
  /\ UNCHANGED <<fnVars, monitorVars, useAI, hasGenAI, activeGenerations>>
  /\ lastResponse' = 0

\* an external call that lost its race against the timer settles at last;
\* its promise has no handler left, so nothing else changes
LateSettles(j) ==
  /\ j \in DOMAIN exec
  /\ \E c \in exec[j].inFlight :
       /\ exec[j].pc \in {"call1", "retry"}
            => c # <<exec[j].i, exec[j].calls[exec[j].i]>>
       /\ exec' = [exec EXCEPT ![j].inFlight = @ \ {c}]
  /\ UNCHANGED <<jobs, abortControllers>>
  /\ UNCHANGED <<fnVars, monitorVars, useAI, hasGenAI, activeGenerations, lastResponse>>

\* onTableComplete has returned: onProgress, then the next iteration
TableComplete(j) ==
  /\ j \in DOMAIN exec
  /\ exec[j].pc = "tableComplete"
  /\ LET e == exec[j] IN
     Iterate(j, onProgress(jobs[j], e.i, e.nTables),
             [e EXCEPT !.events = Append(e.events, progressEvent(e.i, e.nTables))],
             e.i + 1)
  /\ UNCHANGED <<fnVars, monitorVars, useAI, hasGenAI, activeGenerations>>
  /\ lastResponse' = 0

\* saveDataset settles
SaveSettles(j) ==
  /\ j \in DOMAIN exec
  /\ exec[j].pc = "saving"
  /\ \/ Finished(j, Completed(jobs[j], exec[j].meta, TRUE), exec[j])
     \/ \E messageSaysAborted \in BOOLEAN :
          Thrown(j, Caught(jobs[j], messageSaysAborted), exec[j], "saveDataset")
  /\ UNCHANGED <<fnVars, monitorVars, useAI, hasGenAI, activeGenerations>>
  /\ lastResponse' = 0

(***************************************************************************)
(* DELETE /api/jobs/:id/cancel and GenerationService.cancelJob             *)
(***************************************************************************)
cancelJob(job) == [job EXCEPT !.cancelled = TRUE, !.status = "cancelling"]

\* the route handler; no request is handled between the return of
\* generateSyntheticData and the resumption of _executeJob (microtasks run
\* before the next request)
CancelRequestUnchecked(j) ==
  /\ ~(j \in DOMAIN exec /\ exec[j].pc = "generated")
  /\ IF j \notin DOMAIN jobs
       THEN /\ lastResponse' = 404
            /\ UNCHANGED <<jobs, abortControllers, exec>>
       ELSE /\ jobs' = [jobs EXCEPT ![j] = cancelJob(jobs[j])]
            /\ UNCHANGED <<abortControllers, exec>>
            /\ lastResponse' = 200
  /\ UNCHANGED <<fnVars, monitorVars, useAI, hasGenAI, activeGenerations>>
CancelRequest(j) ==
  /\ ~(j \in DOMAIN exec /\ exec[j].pc = "generated")
  /\ IF j \notin DOMAIN jobs
       THEN /\ lastResponse' = 404
            /\ UNCHANGED <<jobs, abortControllers, exec>>
       ELSE IF jobs[j].status \in TerminalStatuses
         THEN /\ lastResponse' = 400
              /\ UNCHANGED <<jobs, abortControllers, exec>>
         ELSE /\ jobs' = [jobs EXCEPT ![j] = cancelJob(jobs[j])]
              /\ abortControllers' =
                   IF j \in DOMAIN abortControllers
                     THEN [abortControllers EXCEPT ![j] = TRUE]
                     ELSE abortControllers
              /\ exec' = [exec EXCEPT ![j].cancelAt =
                   IF exec[j].pc = "tableComplete" /\ exec[j].i < exec[j].nTables
                     THEN exec[j].i
                     ELSE exec[j].cancelAt]
              /\ lastResponse' = 200
  /\ UNCHANGED <<fnVars, monitorVars, useAI, hasGenAI, activeGenerations>>

(***************************************************************************)
(* Specifications                                                          *)
(***************************************************************************)
vars == <<jobVars, fnVars>>

\* one job through its whole life, from POST /api/generate to its terminal
\* status, under every interleaving with cancel requests.  The steps of a job
\* read and write the entries of that job only, so what holds of one job
\* holds of each of several; SpecJobs runs several at a time.
Next ==
  \/ PostGenerate(1, Requests)
  \/ StartExecute(1)
  \/ ParseSettles(1, ParsedSchemas)
  \/ TableBegin(1)
  \/ FirstSettles(1)
  \/ RetrySettles(1)
  \/ LateSettles(1)
  \/ TableComplete(1)
  \/ GenerationSettles(1)
  \/ SaveSettles(1)
  \/ \E j \in 1..2 : CancelRequest(j)

Spec == Init /\ [][Next]_vars

\* one job through its whole life with the sockets of the server: the
\* lifecycle monitor ticks, sockets subscribe to the job, unsubscribe and
\* disconnect at any moment
NextLifecycle ==
  \/ Next
  \/ Tick(1)
  \/ \E sock \in Sockets :
       \/ 1 \in DOMAIN jobs /\ SubscribeJob(sock, 1)
       \/ UnsubscribeJob(sock, 1)
       \/ Disconnect(sock)

SpecLifecycle == Init /\ [][NextLifecycle]_vars

\* a timeout that is pending fires: the event loop runs every timer whose
\* delay has passed
SpecLifecycleFair == SpecLifecycle /\ WF_vars(Tick(1))

\* one job and the external service, which may leave any call unanswered.
\* SchemaParser.parse awaits aiModel.generateContent with nothing raced
\* against it: with a model and USE_AI not 'false' every parse does so, for
\* the fallback when no block was recovered and for the enhancement
\* otherwise.  The calls of the generator are raced against a timer.
parseAwaitsService == hasGenAI /\ useAI

\* parse returns (or throws) without the service
ParseSettlesAlone(j) ==
  /\ ~parseAwaitsService
  /\ ParseSettles(j, ParsedSchemas)

\* the service answers the call of parse, or the call fails
ParseServiceAnswers(j) ==
  /\ parseAwaitsService
  /\ ParseSettles(j, ParsedSchemas)

NextTermination ==
  \/ PostGenerate(1, Requests)
  \/ StartExecute(1)
  \/ ParseSettlesAlone(1)
  \/ ParseServiceAnswers(1)
  \/ TableBegin(1)
  \/ FirstSettles(1)
  \/ RetrySettles(1)
  \/ LateSettles(1)
  \/ TableComplete(1)
  \/ GenerationSettles(1)
  \/ SaveSettles(1)
  \/ CancelRequest(1)

\* what runs without the service's doing: setImmediate, the microtasks that
\* resume an await, the timers of the races, and the database, which answers
SpecTermination ==
  /\ Init
  /\ [][NextTermination]_vars
  /\ WF_vars(StartExecute(1))
  /\ WF_vars(ParseSettlesAlone(1))
  /\ WF_vars(TableBegin(1))
  /\ WF_vars(FirstSettles(1))
  /\ WF_vars(RetrySettles(1))
  /\ WF_vars(TableComplete(1))
  /\ WF_vars(GenerationSettles(1))
  /\ WF_vars(SaveSettles(1))

\* several jobs at a time, in the deterministic mode (USE_AI=false), one
\* request shape, schemas of one table
JobsRequests ==
  {[numRecords |-> Undef, perTable |-> [t \in TableIdx |-> Undef],
    saveName |-> FALSE]}
JobsSchemas == {s \in ParsedSchemas : s.nTables = 1}

InitJobs == Init /\ ~useAI /\ ~hasGenAI

NextJobs ==
  \/ PostGenerate(MaxCapJobs, JobsRequests)
  \/ \E j \in 1..MaxCapJobs :
       \/ StartExecute(j)
       \/ ParseSettles(j, JobsSchemas)
       \/ GenerationSettles(j)
       \/ CancelRequest(j)

SpecJobs == InitJobs /\ [][NextJobs]_vars

\* generateSyntheticData entered in AI mode with a schema and a config a
\* direct caller built (scripts and tests call it without parseDDL): the
\* task stands at the top of the loop, in onTableStart of the first table
GenRequests ==
  {[numRecords |-> n, perTable |-> p, saveName |-> FALSE] :
     n \in CountInputs,
     p \in {q \in [TableIdx -> CountInputs] :
              Cardinality({t \in TableIdx : q[t] # Undef}) <= 1}}

InitGen ==
  /\ useAI = TRUE
  /\ NoSockets
  /\ hasGenAI \in BOOLEAN
  /\ activeGenerations = 0
  /\ \E req \in GenRequests, parsed \in AnySchemas :
       /\ jobs = Put(<< >>, 1, [createJob EXCEPT !.status = "running",
                                              !.progress = ProgressUnit])
       /\ exec = Put(<< >>, 1,
            [newExec(req) EXCEPT !.pc = "tableStart", !.i = 1,
                                 !.nTables = parsed.nTables,
                                 !.hasColumns = parsed.hasColumns])
  /\ abortControllers = Put(<< >>, 1, FALSE)
  /\ lastResponse = 0
  /\ NoCall

NextGen ==
  \/ TableBegin(1)
  \/ FirstSettles(1)
  \/ RetrySettles(1)
  \/ LateSettles(1)
  \/ TableComplete(1)
  \/ GenerationSettles(1)
  \/ CancelRequest(1)

SpecGen == InitGen /\ [][NextGen]_vars

\* autoRepairForeignKeys called on a dataset of two tables, a then b.  Table
\* a has the column id, with a declared key, a key the heuristic infers, or
\* (id being text) no key; table b has id and ref, a declared or an inferred
\* key, and at most one foreign key.
SeqsUpTo(S, n) == UNION {[1..k -> S] : k \in 0..n}
ShortText == Str(1, 3)
LongText == Str(2, LongString + 1)

TableA ==
  {[name |-> "a", columns |-> <<Column("id", type)>>, primaryKey |-> pk,
    foreignKeys |-> << >>] :
     type \in {"int"}, pk \in {<<"id">>, << >>}}
  \cup {[name |-> "a", columns |-> <<Column("id", "text")>>,
         primaryKey |-> << >>, foreignKeys |-> << >>]}
TableB ==
  {[name |-> "b", columns |-> <<Column("id", "int"), Column("ref", "int")>>,
    primaryKey |-> pk, foreignKeys |-> fks] :
     pk \in {<<"id">>, << >>},
     fks \in {<< >>, <<FK(<<"ref">>, "a", <<"id">>)>>,
              <<FK(<<"id">>, "a", <<"id">>)>>,
              <<FK(<<"ref">>, "b", <<"id">>)>>}}
RepairSchemas == {<<a, b>> : a \in TableA, b \in TableB}

RowsA == {[id |-> v] : v \in {Null, N(1), N(2), ShortText, LongText}}
RowsB == {[id |-> v, ref |-> w] :
            v \in {N(1), N(2)}, w \in {Null, N(1), N(3)}}
RepairData ==
  {[a |-> ra, b |-> rb] : ra \in SeqsUpTo(RowsA, MaxRows),
                          rb \in SeqsUpTo(RowsB, MaxRows)}

InitRepair ==
  /\ useAI = FALSE
  /\ NoSockets
  /\ hasGenAI = FALSE
  /\ activeGenerations = 0
  /\ jobs = << >>
  /\ abortControllers = << >>
  /\ exec = << >>
  /\ lastResponse = 0
  /\ schema \in RepairSchemas
  /\ given \in RepairData
  /\ data = given
  /\ phase = "called"
  /\ out = << >>

AutoRepair ==
  /\ phase = "called"
  /\ data' = autoRepairForeignKeys(schema, data)
  /\ phase' = "returned"
  /\ UNCHANGED <<jobVars, schema, given, out>>

NextRepair == AutoRepair

SpecRepair == InitRepair /\ [][NextRepair]_vars


(***************************************************************************)
(* validateDeterministicData called twice on one schema and one dataset    *)
(***************************************************************************)
NotNullRef == [name |-> "ref", type |-> "int", nullable |-> FALSE]
ValidateSchemas ==
  RepairSchemas
  \cup {<<ab[1], [ab[2] EXCEPT !.columns = <<Column("id", "int"), NotNullRef>>]>> :
          ab \in RepairSchemas}
  \cup {<<ab[1], [ab[2] EXCEPT !.primaryKey = <<"id", "ref">>]>> :
          ab \in RepairSchemas}

InitValidate ==
  /\ useAI = FALSE
  /\ NoSockets
  /\ hasGenAI = FALSE
  /\ activeGenerations = 0
  /\ jobs = << >>
  /\ abortControllers = << >>
  /\ exec = << >>
  /\ lastResponse = 0
  /\ schema \in ValidateSchemas
  /\ given \in RepairData
  /\ data = given
  /\ phase = "called"
  /\ out = << >>

Validate ==
  /\ phase \in {"called", "once"}
  /\ LET r == validateDeterministicData(schema, data)
     IN  /\ data' = r.data
         /\ out' = Append(out, [passed |-> r.passed, errors |-> r.errors,
                                tables |-> r.tables, summary |-> r.summary])
  /\ phase' = IF phase = "called" THEN "once" ELSE "twice"
  /\ UNCHANGED <<jobVars, schema, given>>

NextValidate == Validate

SpecValidate == InitValidate /\ [][NextValidate]_vars

(***************************************************************************)
(* From the end of the table loop of generateSyntheticData to the          *)
(* validation of _executeJob, on a generated dataset of the tables a, b    *)
(***************************************************************************)
AutoFixOptions == {"undefined", "false"}
PostConfigs ==
  [integrityRepair : BOOLEAN, autoFixForeignKeys : AutoFixOptions,
   saveName : {FALSE}]
NotSaved == [called |-> FALSE, data |-> << >>, validation |-> << >>]
NoMeta == [integrityRepairApplied |-> FALSE, autoFixForeignKeys |-> FALSE,
           normalized |-> FALSE, validation |-> << >>,
           status |-> "running", result |-> << >>, saved |-> NotSaved]

InitPost ==
  /\ useAI \in BOOLEAN
  /\ NoSockets
  /\ hasGenAI = FALSE
  /\ activeGenerations = 0
  /\ jobs = << >>
  /\ abortControllers = << >>
  /\ exec = << >>
  /\ lastResponse = 0
  /\ schema \in RepairSchemas
  /\ given \in RepairData
  /\ data = given
  /\ \E config \in PostConfigs : phase = [pc |-> "tables", config |-> config]
  /\ out = NoMeta

\* dataGenerator.js after the table loop: repair when config.integrityRepair
\* is set (every entry of its audit stands for a changed or added row); the
\* deterministic branch returns the dataset as generated
GeneratorReturns ==
  /\ phase.pc = "tables"
  /\ IF useAI /\ phase.config.integrityRepair
       THEN /\ data' = autoRepairForeignKeys(schema, data)
            /\ out' = [out EXCEPT !.integrityRepairApplied = TRUE,
                                  !.autoFixForeignKeys = (data' # data)]
       ELSE UNCHANGED <<data, out>>
  /\ phase' = [phase EXCEPT !.pc = "returned"]
  /\ UNCHANGED <<jobVars, schema, given>>

\* _executeJob resumes: normalization of a dataset of the service, then the
\* inline repair
JobRepairs ==
  /\ phase.pc = "returned"
  /\ LET normalized == IF useAI THEN normalizeDataset(schema, data) ELSE data
         st == autoFixForeignKeys(schema, normalized, phase.config.autoFixForeignKeys)
     IN  /\ data' = st.data
         /\ out' = [out EXCEPT !.normalized = useAI,
                               !.autoFixForeignKeys = @ \/ st.audit]
  /\ phase' = [phase EXCEPT !.pc = "repaired"]
  /\ UNCHANGED <<jobVars, schema, given>>

\* job.status = 'completed'; job.result = { ..., meta, validation }
jobCompleted(meta) ==
  [meta EXCEPT !.status = "completed", !.result = meta.validation]

\* validateDeterministicData(schema, data); meta = { ...meta, validation };
\* then saveDataset(saveName, ..., schema, data, meta) is awaited when a
\* saveName was given, and the job completes at once when none was: the
\* report is read by nothing on the way
JobValidatesOrThrows ==
  /\ phase.pc = "repaired"
  /\ LET r == validateDeterministicData(schema, data)
         meta == [out EXCEPT !.validation = [tables |-> r.tables,
                                             summary |-> r.summary]]
     IN  /\ data' = r.data
         /\ out' = IF ~r.passed THEN [meta EXCEPT !.status = "error"]
                   ELSE IF phase.config.saveName
                     THEN [meta EXCEPT !.saved = [called |-> TRUE, data |-> r.data,
                                                 validation |-> meta.validation]]
                     ELSE jobCompleted(meta)
  /\ phase' = [phase EXCEPT !.pc = "validated"]
  /\ UNCHANGED <<jobVars, schema, given>>
JobValidates ==
  /\ phase.pc = "repaired"
  /\ LET r == validateDeterministicData(schema, data)
         meta == [out EXCEPT !.validation = [tables |-> r.tables,
                                             summary |-> r.summary]]
     IN  /\ data' = r.data
         /\ out' = IF phase.config.saveName
                     THEN [meta EXCEPT !.saved = [called |-> TRUE, data |-> r.data,
                                                 validation |-> meta.validation]]
                     ELSE jobCompleted(meta)
  /\ phase' = [phase EXCEPT !.pc = "validated"]
  /\ UNCHANGED <<jobVars, schema, given>>

\* saveDataset settles: the job completes, or the rejection is caught
JobSaved ==
  /\ phase.pc = "validated"
  /\ out.status = "running"
  /\ \/ out' = jobCompleted(out)
     \/ out' = [out EXCEPT !.status = "error"]
  /\ phase' = [phase EXCEPT !.pc = "done"]
  /\ UNCHANGED <<jobVars, schema, given, data>>

NextPost ==
  \/ GeneratorReturns
  \/ JobRepairs
  \/ JobValidates

SpecPost == InitPost /\ [][NextPost]_vars

\* the same steps up to the end of the job, with and without a saveName, on
\* the schemas where table b has a foreign key to table a
FinishSchemas ==
  {ab \in ValidateSchemas :
     /\ ab[1].primaryKey = <<"id">>
     /\ ab[2].foreignKeys = <<FK(<<"ref">>, "a", <<"id">>)>>}
FinishConfigs ==
  [integrityRepair : BOOLEAN, autoFixForeignKeys : AutoFixOptions,
   saveName : BOOLEAN]

InitFinish ==
  /\ useAI \in BOOLEAN
  /\ NoSockets
  /\ hasGenAI = FALSE
  /\ activeGenerations = 0
  /\ jobs = << >>
  /\ abortControllers = << >>
  /\ exec = << >>
  /\ lastResponse = 0
  /\ schema \in FinishSchemas
  /\ given \in RepairData
  /\ data = given
  /\ \E config \in FinishConfigs : phase = [pc |-> "tables", config |-> config]
  /\ out = NoMeta

NextFinish ==
  \/ GeneratorReturns
  \/ JobRepairs
  \/ JobValidates
  \/ JobSaved

SpecFinish == InitFinish /\ [][NextFinish]_vars

(***************************************************************************)
(* Socket 'generateData': the streaming path.  Numbers that may be         *)
(* fractional (chunkSize, the loop index i, delivered) are counted in      *)
(* halves; NotANumber is what Math.min and Math.max give for a value that  *)
(* is no number, and delivered, never NaN, is a plain count of halves.  A  *)
(* row is its index in its table.                                          *)
(***************************************************************************)
Number(h) == [nan |-> FALSE, h |-> h]
NotANumber == [nan |-> TRUE, h |-> 0]
InHalves(n) == 2 * n
Trunc(h) == h \div 2

\* config.chunkSize as the payload carries it: absent, a number (in halves)
\* or a value that converts to no number
NoChunkSize == [kind |-> "undefined", h |-> 0]
ChunkNumber(h) == [kind |-> "number", h |-> h]
ChunkText == [kind |-> "text", h |-> 0]

\* Math.max(1, Math.min(50, config.chunkSize || 25))
chunkSize(raw) ==
  LET v == IF raw.kind = "undefined" \/ (raw.kind = "number" /\ raw.h = 0)
             THEN ChunkNumber(InHalves(25)) ELSE raw
  IN  IF v.kind = "text" THEN NotANumber
      ELSE Number(Max(InHalves(1), Min(InHalves(50), v.h)))

\* i + chunkSize, i < rows.length and rows.slice(i, i + chunkSize)
plus(i, c) == IF i.nan \/ c.nan THEN NotANumber ELSE Number(i.h + c.h)
lessThan(i, n) == ~i.nan /\ i.h < InHalves(n)
slice(rows, i, to) ==
  LET from == Trunc(i.h)
      end == IF to.nan THEN 0 ELSE Min(Trunc(to.h), Len(rows))
  IN  [k \in 1..Max(0, end - from) |-> rows[from + k]]

emit(st, e) == [st EXCEPT !.out = Append(st.out, e)]

\* the body of the chunk loop for index st.i: one table:progress, then the
\* 5 ms timer
progressChunk(st, rows, cs) ==
  LET chunk == slice(rows, st.i, plus(st.i, cs))
  IN  [emit(st, [event |-> "table:progress", table |-> st.t,
                 delivered |-> Min(st.i.h + InHalves(Len(chunk)), InHalves(Len(rows))),
                 total |-> InHalves(Len(rows)), chunk |-> chunk])
         EXCEPT !.pc = "timer"]

\* after the table loop: validation, then the save when a name was given
afterTables(st, saveName) ==
  LET validated == emit(st, [event |-> "generation:validation"])
  IN  IF saveName THEN [validated EXCEPT !.pc = "saving"]
      ELSE [emit(validated, [event |-> "generation:complete"]) EXCEPT !.pc = "done"]

\* the handler from the test of the chunk loop (chunkLoop) or from the head of
\* the table loop (tableLoop) up to its next await
RECURSIVE chunkLoop(_, _, _, _, _), tableLoop(_, _, _, _, _)
chunkLoop(st, payload, names, ai, hasModel) ==
  LET rows == st.finalData[names[st.t]]
  IN  IF lessThan(st.i, Len(rows))
        THEN progressChunk(st, rows, chunkSize(payload.chunkSize))
        ELSE tableLoop([emit(st, [event |-> "table:complete", table |-> st.t,
                               rows |-> Len(rows)])
                       EXCEPT !.t = st.t + 1],
                    payload, names, ai, hasModel)
tableLoop(st, payload, names, ai, hasModel) ==
  IF st.t > Len(names) THEN afterTables(st, payload.saveName)
  ELSE LET started == [emit(st, [event |-> "table:start", table |-> st.t])
                         EXCEPT !.i = Number(0)]
       IN  IF ai /\ hasModel THEN [started EXCEPT !.pc = "ai"]
           ELSE IF ai
             THEN \* dataGenerator.model is undefined: caught at once
                  chunkLoop(emit(started, [event |-> "table:ai_fallback", table |-> st.t]),
                         payload, names, ai, hasModel)
             ELSE chunkLoop(started, payload, names, ai, hasModel)

StreamNames == <<"t1", "t2", "t3">>
StreamRows == {[k \in 1..n |-> k] : n \in 0..MaxStreamRows}
StreamPayloads ==
  [chunkSize : {NoChunkSize, ChunkText}
                 \cup {ChunkNumber(h) : h \in {0 - 2, 0, 1, 2, 3, 4, 120}},
   saveName : BOOLEAN]

InitStream ==
  /\ useAI \in BOOLEAN
  /\ NoSockets
  /\ hasGenAI \in BOOLEAN
  /\ activeGenerations = 0
  /\ jobs = << >>
  /\ abortControllers = << >>
  /\ exec = << >>
  /\ lastResponse = 0
  /\ \E n \in 1..MaxStreamTables : schema = SubSeq(StreamNames, 1, n)
  /\ given \in StreamPayloads
  /\ data \in [{schema[k] : k \in 1..Len(schema)} -> StreamRows]
  /\ phase = [pc |-> "received", t |-> 0, i |-> Number(0)]
  /\ out = << >>

\* the state of the handler as the operators above take it, and back
streamState == [pc |-> phase.pc, t |-> phase.t, i |-> phase.i, out |-> out,
                finalData |-> data]
StreamBecomes(st) ==
  /\ phase' = [pc |-> st.pc, t |-> st.t, i |-> st.i]
  /\ out' = st.out
  /\ data' = st.finalData
  /\ UNCHANGED <<jobVars, schema, given>>

\* socket.on('generateData'): generation:start, then await parseDDL
GenerateData ==
  /\ phase.pc = "received"
  /\ StreamBecomes([emit(streamState, [event |-> "generation:start"])
                      EXCEPT !.pc = "parsing"])

\* parseDDL settles: schema:parsed, the baseline (data), the first table
StreamParsed ==
  /\ phase.pc = "parsing"
  /\ \/ StreamBecomes([emit(streamState, [event |-> "generation:error"])
                         EXCEPT !.pc = "done"])
     \/ StreamBecomes(tableLoop([emit(streamState, [event |-> "schema:parsed"])
                                EXCEPT !.t = 1],
                             given, schema, useAI, hasGenAI))

\* dataGenerator.model.generateContent settles: rows of the service replace
\* the baseline rows, or none are usable, or the call failed
StreamAISettles ==
  /\ phase.pc = "ai"
  /\ \/ \E aiRows \in StreamRows :
          StreamBecomes(chunkLoop(
            IF Len(aiRows) > 0
              THEN [streamState EXCEPT !.finalData[schema[phase.t]] = aiRows]
              ELSE streamState,
            given, schema, useAI, hasGenAI))
     \/ StreamBecomes(chunkLoop(
          emit(streamState, [event |-> "table:ai_fallback", table |-> phase.t]),
          given, schema, useAI, hasGenAI))

\* the 5 ms timer of the chunk loop fires: i += chunkSize
StreamTimer ==
  /\ phase.pc = "timer"
  /\ StreamBecomes(chunkLoop(
       [streamState EXCEPT !.i = plus(phase.i, chunkSize(given.chunkSize))],
       given, schema, useAI, hasGenAI))

\* saveDataset settles: dataset:saved or dataset:save_error, then the end
StreamSaved ==
  /\ phase.pc = "saving"
  /\ \E saved \in {"dataset:saved", "dataset:save_error"} :
       StreamBecomes([emit(emit(streamState, [event |-> saved]),
                           [event |-> "generation:complete"])
                        EXCEPT !.pc = "done"])

NextStream ==
  \/ GenerateData
  \/ StreamParsed
  \/ StreamAISettles
  \/ StreamTimer
  \/ StreamSaved

SpecStream == InitStream /\ [][NextStream]_vars

\* no job exists while a library function is called on its own
NoJobs ==
  /\ useAI = FALSE
  /\ NoSockets
  /\ hasGenAI = FALSE
  /\ activeGenerations = 0
  /\ jobs = << >>
  /\ abortControllers = << >>
  /\ exec = << >>
  /\ lastResponse = 0

(***************************************************************************)
(* Sampling temperatures (config.js effectiveTemperature and the retry of  *)
(* generateSyntheticData), in hundredths                                   *)
(***************************************************************************)
TempUnit == 100

\* Math.min(Math.max(override, 0), 1) for a number, undefined otherwise
effectiveTemperature(override) ==
  IF override.def THEN Num(Min(Max(override.n, 0), TempUnit)) ELSE Undef

\* Number((effectiveTemp * 0.7).toFixed(2)): the double nearest to the product
\* lies above the midpoint of two hundredths for 0.45 and 0.55 only, below it
\* for the other temperatures that end in 5
TiesAbove == {45, 55}
timesSevenTenths(t) ==
  IF (7 * t) % 10 = 5
    THEN (IF t \in TiesAbove THEN (7 * t + 5) \div 10 ELSE (7 * t - 5) \div 10)
    ELSE (7 * t + 5) \div 10

\* retryTemp: Math.max(0.1, 0.7 * effectiveTemp), or 0.3 when no temperature
\* was configured
retryTemp(effectiveTemp) ==
  IF effectiveTemp.def
    THEN Max(TempUnit \div 10, timesSevenTenths(effectiveTemp.n))
    ELSE (3 * TempUnit) \div 10

TemperatureInputs == {Undef} \cup {Num(t) : t \in (0 - 5)..(TempUnit + 5)}

InitTemp ==
  /\ NoJobs
  /\ schema = << >>
  /\ given \in TemperatureInputs
  /\ data = << >>
  /\ phase = "called"
  /\ out = << >>

\* the temperatures of the two attempts of a table
Temperatures ==
  /\ phase = "called"
  /\ out' = [first |-> effectiveTemperature(given),
             retry |-> retryTemp(effectiveTemperature(given))]
  /\ phase' = "returned"
  /\ UNCHANGED <<jobVars, schema, given, data>>

NextTemp == Temperatures

SpecTemp == InitTemp /\ [][NextTemp]_vars

(***************************************************************************)
(* SchemaParser (schemaParser.js).  A DDL is a sequence of CREATE TABLE    *)
(* blocks, a block a table name and one column declaration per line, a     *)
(* declaration a column name and its type: a type word, or ENUM(...) with  *)
(* the texts between the quotes of its list                                *)
(***************************************************************************)
Word(w) == [enum |-> FALSE, word |-> w, list |-> << >>]
Enum(list) == [enum |-> TRUE, word |-> "ENUM", list |-> list]
ColumnLine(column, type) == [column |-> column, type |-> type]
Block(table, lines) == [table |-> table, lines |-> lines]
MapTypes(block, F(_)) ==
  [block EXCEPT !.lines =
     [l \in 1..Len(block.lines) |->
        [block.lines[l] EXCEPT !.type = F(block.lines[l].type)]]]

\* String.prototype.toLowerCase and /enum/i.test on the type words of the model
toLowerCase(w) ==
  CASE w = "INT" -> "int"
    [] w = "TEXT" -> "text"
    [] w = "DATETIME" -> "datetime"
    [] w = "TIMESTAMP" -> "timestamp"
    [] w = "VARCHAR" -> "varchar"
    [] w = "ENUM" -> "enum"
    [] OTHER -> w
matchesEnum(w) == toLowerCase(w) = "enum"

\* _sanitizeDDL: .replace(/ENUM\s*\([^)]*\)/gi, 'TEXT') and
\* .replace(/\bDATETIME\b/gi, 'TIMESTAMP') on every type of the text
sanitizeType(type) ==
  IF type.enum THEN Word("TEXT")
  ELSE IF toLowerCase(type.word) = "datetime" THEN Word("TIMESTAMP")
  ELSE type
sanitizeDDL(raw) ==
  [b \in 1..Len(raw) |-> MapTypes(raw[b], sanitizeType)]

\* lines 233-242: per line, name ENUM(list) with a list of at least one
\* character; the values are trimmed, unquoted, and the empty ones dropped
enumVals(list) == SelectSeq(list, LAMBDA v : v # "")
enumValuesPerColumn(rawBlock) ==
  LET hits == {l \in 1..Len(rawBlock.lines) :
                 /\ rawBlock.lines[l].type.enum
                 /\ Len(rawBlock.lines[l].type.list) > 0
                 /\ enumVals(rawBlock.lines[l].type.list) # << >>}
  IN  [c \in {rawBlock.lines[l].column : l \in hits} |->
         enumVals(rawBlock.lines[CHOOSE l \in hits :
                                   rawBlock.lines[l].column = c].type.list)]

\* lines 246-257: 'strip-enum' turns ENUM(...) into VARCHAR(100); checks and
\* comments are not part of the model's text
simplifications == <<"original-block", "strip-check", "strip-enum", "strip-comments">>
stripEnum(type) == IF type.enum THEN Word("VARCHAR") ELSE type
simplify(rawBlock, label) ==
  IF label = "strip-enum" THEN MapTypes(rawBlock, stripEnum) ELSE rawBlock

\* _processAST on the statement the SQL parser returns for a block
processAST(block) ==
  [name |-> block.table,
   columns |-> [c \in {block.lines[l].column : l \in 1..Len(block.lines)} |->
                  LET dataType ==
                        block.lines[CHOOSE l \in 1..Len(block.lines) :
                                      block.lines[l].column = c].type.word
                  IN  [type |-> IF matchesEnum(dataType) THEN "text" ELSE dataType,
                       nullable |-> TRUE]],
   primaryKey |-> << >>,
   foreignKeys |-> << >>]

\* lines 295-302
attachEnumValues(def, enumValues) ==
  [def EXCEPT !.columns =
     [c \in DOMAIN def.columns |->
        IF c \in DOMAIN enumValues
          THEN Put([def.columns[c] EXCEPT
                      !.type = IF matchesEnum(@) THEN "text" ELSE @],
                   "enumValues", enumValues[c])
          ELSE def.columns[c]]]

\* lines 325-382: the table read off the block with regular expressions
salvage(rawBlock, enumValues) ==
  [name |-> rawBlock.table,
   columns |-> [c \in {rawBlock.lines[l].column : l \in 1..Len(rawBlock.lines)} |->
                  LET m3 == rawBlock.lines[CHOOSE l \in 1..Len(rawBlock.lines) :
                                             rawBlock.lines[l].column = c].type.word
                      col == [type |-> IF matchesEnum(m3) THEN "text"
                                       ELSE toLowerCase(m3),
                              nullable |-> TRUE]
                  IN  IF c \in DOMAIN enumValues
                        THEN Put(col, "enumValues", enumValues[c]) ELSE col],
   primaryKey |-> << >>,
   foreignKeys |-> << >>]

\* what the SQL parser of the node-sql-parser package makes of a variant in a
\* grammar: the table ("table"), a statement list without it ("other"), or
\* an exception ("throws").  grammar is [yields, failure]: the combinations
\* of a variant and a dialect, numbered in the order of the two loops, that
\* give the table, and what each dialect gives for the other combinations
Dialects == <<"PostgreSQL", "MySQL">>
combination(a, d) == Len(Dialects) * (a - 1) + d
parserResult(grammar, a, d) ==
  IF combination(a, d) \in grammar.yields THEN "table" ELSE grammar.failure[d]
\* the dialects tried in the opposite order
firstDialectReversed(dbs) == CHOOSE x \in dbs : \A y \in dbs : x >= y
firstDialect(dbs) == CHOOSE x \in dbs : \A y \in dbs : x <= y

\* warnings.push({ type, message }): the type, the table and the dialect or
\* label the message names
Warning(type, table, detail) == [type |-> type, table |-> table, detail |-> detail]

\* lines 259-324: st is [ok, def, warnings]
RECURSIVE tryAttempts(_, _, _, _)
tryAttempts(rawBlock, grammar, a, warnings) ==
  IF a > Len(simplifications) THEN [ok |-> FALSE, def |-> << >>, warnings |-> warnings]
  ELSE LET dbs == {d \in 1..Len(Dialects) : parserResult(grammar, a, d) = "table"}
       IN  IF dbs = {} THEN tryAttempts(rawBlock, grammar, a + 1, warnings)
           ELSE LET d == firstDialect(dbs)
                    w1 == IF Dialects[d] # "PostgreSQL"
                            THEN Append(warnings,
                                   Warning("dialect-detection", rawBlock.table, Dialects[d]))
                            ELSE warnings
                    w2 == IF simplifications[a] # "original-block"
                            THEN Append(w1,
                                   Warning("block-simplified", rawBlock.table,
                                           simplifications[a]))
                            ELSE w1
                IN  [ok |-> TRUE,
                     def |-> attachEnumValues(
                               processAST(simplify(rawBlock, simplifications[a])),
                               enumValuesPerColumn(rawBlock)),
                     warnings |-> w2]

\* lines 216-383: the blocks in order; st is [tables, warnings]
RECURSIVE recoverBlocks(_, _, _, _)
recoverBlocks(blocks, grammars, b, st) ==
  IF b > Len(blocks) THEN st
  ELSE LET tried == tryAttempts(blocks[b], grammars[b], 1, st.warnings)
       IN  recoverBlocks(blocks, grammars, b + 1,
             IF tried.ok
               THEN [tables |-> Put(st.tables, blocks[b].table, tried.def),
                     warnings |-> tried.warnings]
               ELSE [tables |-> Put(st.tables, blocks[b].table,
                                    salvage(blocks[b], enumValuesPerColumn(blocks[b]))),
                     warnings |-> Append(tried.warnings,
                                         Warning("regex-salvage", blocks[b].table, ""))])

\* lines 410-419
enumSummary(tables) ==
  LET withEnums(t) == {c \in DOMAIN tables[t].columns :
                         "enumValues" \in DOMAIN tables[t].columns[c]}
  IN  [t \in {x \in DOMAIN tables : withEnums(x) # {}} |->
         [c \in withEnums(t) |-> tables[t].columns[c].enumValues]]

\* the schema the generative service returns when asked to parse the DDL
AISchema ==
  [tables |-> [t1 |-> [name |-> "t1",
                       columns |-> [id |-> [type |-> "text", nullable |-> TRUE]],
                       primaryKey |-> << >>, foreignKeys |-> << >>]]]

\* parse: aiModel tells whether a model was constructed, enhanceAI whether
\* USE_AI is not 'false'; fallback and enhance are the answers of the
\* generative service ("json", "nothing", "throws").  The result is [threw,
\* schema]
parse(ddlContent, grammars, aiModel, enhanceAI, fallback, enhance) ==
  LET sanitized == sanitizeDDL(ddlContent)
      rec == recoverBlocks(sanitized, grammars, 1,
                           [tables |-> << >>, warnings |-> << >>])
      summary == enumSummary(rec.tables)
      meta == IF DOMAIN summary # {}
                THEN [parseWarnings |-> rec.warnings, enums |-> summary]
                ELSE [parseWarnings |-> rec.warnings]
      recovered == [tables |-> rec.tables, meta |-> meta]
  IN  IF DOMAIN rec.tables = {} /\ aiModel /\ fallback = "throws"
        THEN [threw |-> TRUE, schema |-> << >>]
      ELSE IF DOMAIN rec.tables = {} /\ aiModel /\ fallback = "json"
        THEN [threw |-> FALSE,
              schema |-> Put(AISchema, "meta",
                             [parseWarnings |->
                                Append(rec.warnings, Warning("ai-fallback", "", ""))])]
      ELSE IF enhanceAI /\ aiModel /\ enhance = "json"
        THEN [threw |-> FALSE, schema |-> Put(recovered, "suggestions", TRUE)]
      ELSE [threw |-> FALSE, schema |-> recovered]

\* SchemaParser.parse called on a DDL of at most MaxDDLTables blocks, each
\* with an integer column id and a column status of a text, datetime or
\* enumerated type with at most MaxEnumValues values
DDLTableNames == <<"t1", "t2", "t3">>
EnumLists == SeqsUpTo({"a", "b"}, MaxEnumValues) \cup {<<"">>}
StatusTypes == {Word("TEXT"), Word("DATETIME")} \cup {Enum(list) : list \in EnumLists}
DDL(types) ==
  [b \in 1..Len(types) |->
     Block(DDLTableNames[b],
           <<ColumnLine("id", Word("INT")), ColumnLine("status", types[b])>>)]
Combinations == 1..(Len(Dialects) * Len(simplifications))
Failures == {"throws", "other"}
Grammars ==
  {[yields |-> {c \in Combinations : c >= first},
    failure |-> [d \in 1..Len(Dialects) |-> failure]] :
     first \in 1..(Len(Dialects) * Len(simplifications) + 1), failure \in Failures}
AIAnswers(asked) == IF asked THEN {"json", "nothing", "throws"} ELSE {"nothing"}

InitParse ==
  /\ NoJobs
  /\ schema = << >>
  /\ \E n \in 0..MaxDDLTables :
       \E types \in [1..n -> StatusTypes], g \in [1..n -> Grammars],
          ai \in BOOLEAN, en \in BOOLEAN :
         \E fb \in AIAnswers(ai /\ n = 0), eh \in AIAnswers(ai /\ en) \ {"throws"} :
           given = [ddl |-> DDL(types), grammars |-> g, aiModel |-> ai,
                    enhanceAI |-> en, fallback |-> fb, enhance |-> eh]
  /\ data = << >>
  /\ phase = "called"
  /\ out = << >>

ParseDDL ==
  /\ phase = "called"
  /\ LET r == parse(given.ddl, given.grammars, given.aiModel, given.enhanceAI,
                    given.fallback, given.enhance)
     IN  /\ data' = r.schema
         /\ phase' = IF r.threw THEN "threw" ELSE "returned"
  /\ UNCHANGED <<jobVars, schema, given, out>>

NextParse == ParseDDL

SpecParse == InitParse /\ [][NextParse]_vars

\* SchemaParser.parse called on a DDL of one to MaxDDLTables blocks, the
\* parser giving the table for any at most MaxYields combinations of a
\* variant and a dialect, and failing per dialect in either way for the rest
CascadeTypes == {Word("TEXT"), Enum(<<"a">>)}
CascadeGrammars ==
  [yields : {S \in SUBSET Combinations : Cardinality(S) <= MaxYields},
   failure : [1..Len(Dialects) -> Failures]]

InitCascade ==
  /\ NoJobs
  /\ schema = << >>
  /\ \E n \in 1..MaxDDLTables :
       \E types \in [1..n -> CascadeTypes], g \in [1..n -> CascadeGrammars],
          ai \in BOOLEAN :
         \E eh \in AIAnswers(ai) \ {"throws"} :
           given = [ddl |-> DDL(types), grammars |-> g, aiModel |-> ai,
                    enhanceAI |-> TRUE, fallback |-> "nothing", enhance |-> eh]
  /\ data = << >>
  /\ phase = "called"
  /\ out = << >>

NextCascade == ParseDDL

SpecCascade == InitCascade /\ [][NextCascade]_vars

\* the dependency orderers called on a schema of MaxOrderTables tables with at
\* most MaxSchemaFKs foreign keys, each from a table to a table of the schema
\* (itself included) or to a table the schema does not have
OrderNames == <<"t1", "t2", "t3", "t4", "t5">>
OrderTableNames == {OrderNames[k] : k \in 1..MaxOrderTables}
OrderEdges ==
  [child : OrderTableNames, parent : OrderTableNames \cup {"elsewhere"}]
ForeignKeysOf(edges, t) ==
  LET own == SelectSeq(edges, LAMBDA e : e.child = t)
  IN  [f \in 1..Len(own) |-> FK(<<"ref">>, own[f].parent, <<"id">>)]
OrderSchema(edges) ==
  [k \in 1..MaxOrderTables |->
     [name |-> OrderNames[k],
      columns |-> <<Column("id", "int"), Column("ref", "int")>>,
      primaryKey |-> <<"id">>,
      foreignKeys |-> ForeignKeysOf(edges, OrderNames[k])]]
OrderSchemas == {OrderSchema(edges) : edges \in SeqsUpTo(OrderEdges, MaxSchemaFKs)}

InitOrder ==
  /\ NoJobs
  /\ schema \in OrderSchemas
  /\ given = << >>
  /\ data = << >>
  /\ phase = "called"
  /\ out = << >>

OrderTables ==
  /\ phase = "called"
  /\ data' = [deterministic |-> topologicalSortTables(schema),
              ai |-> orderTablesForGeneration(schema)]
  /\ phase' = "returned"
  /\ UNCHANGED <<jobVars, schema, given, out>>

NextOrder == OrderTables

SpecOrder == InitOrder /\ [][NextOrder]_vars


\* generateDeterministicData called twice with the same seed, schema and
\* config.  The schema has the tables a, b, c in that declaration order,
\* each with the key id and a column ref, and at most MaxDetFKs single-column
\* foreign keys; the config gives every table 1..MaxRows rows.
DetNames == <<"a", "b", "c">>
DetTableNames == {DetNames[k] : k \in 1..Len(DetNames)}
DetEdges == [child : DetTableNames, column : {"id", "ref"}, parent : DetTableNames]
DetForeignKeysOf(edges, t) ==
  LET own == SelectSeq(edges, LAMBDA e : e.child = t)
  IN  [f \in 1..Len(own) |-> FK(<<own[f].column>>, own[f].parent, <<"id">>)]
DetSchema(edges) ==
  [k \in 1..Len(DetNames) |->
     [name |-> DetNames[k],
      columns |-> <<Column("id", "int"), Column("ref", "int")>>,
      primaryKey |-> <<"id">>,
      foreignKeys |-> DetForeignKeysOf(edges, DetNames[k])]]
DetSchemas == {DetSchema(edges) : edges \in SeqsUpTo(DetEdges, MaxDetFKs)}
DetConfigs ==
  [globalRowCount : {1},
   perTable : [DetTableNames -> {Num(n) : n \in 1..MaxRows}],
   nullProbability : {[configured |-> TRUE, default |-> Num(h), tables |-> << >>] :
                        h \in {0, 1}},
   seed : {1, 2}]

InitDet ==
  /\ NoJobs
  /\ schema \in DetSchemas
  /\ given \in DetConfigs
  /\ data = << >>
  /\ phase = "called"
  /\ out = << >>

GenerateDeterministic ==
  /\ phase \in {"called", "once"}
  /\ \E draws \in [1..MaxDraws -> {0, 1}] :
       data' = Append(data, generateDeterministicData(schema, given, draws))
  /\ phase' = IF phase = "called" THEN "once" ELSE "twice"
  /\ UNCHANGED <<jobVars, schema, given, out>>

NextDet == GenerateDeterministic

SpecDet == InitDet /\ [][NextDet]_vars

\* normalizeDataset called on the schema of a (column id) and b (columns id
\* and ref) and a dataset that is null or holds any of the tables a, b and
\* extra; a row is null or an object with any of the keys id, ref and junk
NormalizeSchema ==
  <<[name |-> "a", columns |-> <<Column("id", "int")>>, primaryKey |-> <<"id">>,
     foreignKeys |-> << >>],
    [name |-> "b", columns |-> <<Column("id", "int"), Column("ref", "int")>>,
     primaryKey |-> <<"id">>, foreignKeys |-> << >>]>>
NormalizeRows ==
  {Null}
  \cup UNION {[keys -> {N(1)}] : keys \in SUBSET {"id", "ref", "junk"}}
  \cup UNION {[keys \cup {"id"} -> {Null}] : keys \in SUBSET {"ref"}}
NormalizeTables == {"a", "b", "extra"}
NormalizeRowSeqs(t) ==
  IF t = "a" THEN SeqsUpTo(NormalizeRows, MaxRows)
  ELSE IF t = "b" THEN SeqsUpTo(NormalizeRows, 1)
  ELSE {<<[id |-> N(1)]>>}

InitNormalize ==
  /\ NoJobs
  /\ schema = NormalizeSchema
  /\ \/ given = Null
     \/ \E present \in SUBSET NormalizeTables :
          \E ra \in NormalizeRowSeqs("a"), rb \in NormalizeRowSeqs("b") :
            given = [t \in present |->
                       IF t = "a" THEN ra
                       ELSE IF t = "b" THEN rb
                       ELSE <<[id |-> N(1)]>>]
  /\ data = << >>
  /\ phase = "called"
  /\ out = << >>

Normalize ==
  /\ phase = "called"
  /\ data' = normalizeDataset(schema, given)
  /\ phase' = "returned"
  /\ UNCHANGED <<jobVars, schema, given, out>>

NextNormalize == Normalize

SpecNormalize == InitNormalize /\ [][NextNormalize]_vars

\* inferSinglePK and inferPrimaryKey called on one table definition: a table
\* a of one to MaxKeyColumns columns with an integer, serial or text type,
\* and no declared key, a declared column, or a declared pair of columns
KeyColumnNames == {"id", "ID", "a_id", "owner_id", "name"}
KeyColumnSeqs ==
  {cols \in UNION {[1..n -> [name : KeyColumnNames, type : {"int", "serial", "text"}]] :
                     n \in 1..MaxKeyColumns} :
     \A k, m \in 1..Len(cols) : k # m => cols[k].name # cols[m].name}
DeclaredKeys == {<< >>, <<"name">>, <<"name", "id">>}

InitInfer ==
  /\ NoJobs
  /\ \E cols \in KeyColumnSeqs, pk \in DeclaredKeys :
       schema = <<[name |-> "a", columns |-> cols, primaryKey |-> pk,
                   foreignKeys |-> << >>]>>
  /\ given = << >>
  /\ data = << >>
  /\ phase = "called"
  /\ out = << >>

InferKeys ==
  /\ phase = "called"
  /\ out' = [repairer |-> inferSinglePK(schema[1].name, schema[1]),
             generator |-> inferPrimaryKey(schema[1].name, schema[1])]
  /\ phase' = "returned"
  /\ UNCHANGED <<jobVars, schema, given, data>>

NextInfer == InferKeys

SpecInfer == InitInfer /\ [][NextInfer]_vars

\* generateDeterministicData called on the tables a and b, each with the
\* integer columns id and ref, ref of a nullable or not, the key of a
\* declared or inferred, a and b without foreign keys, b referencing a, or a
\* and b referencing each other; the null probabilities are absent, or give
\* a global default, a default of a and a probability of a.ref, each absent,
\* 0 or 1.  Two of the seeds make the first and the fourth number of the
\* generator the largest one, 0xffffffff / 0xffffffff.
NullNames == <<"a", "b">>
FirstDrawOne == 653637408
FourthDrawOne == 2117335195
NullSeeds == {1, FirstDrawOne, FourthDrawOne}
NullTable(name, nullable, primaryKey, foreignKeys) ==
  [name |-> name,
   columns |-> <<Column("id", "int"),
                 [name |-> "ref", type |-> "int", nullable |-> nullable]>>,
   primaryKey |-> primaryKey,
   foreignKeys |-> foreignKeys]
NullSchemas ==
  {<<NullTable("a", nullable, pk, fa), NullTable("b", TRUE, <<"id">>, fb)>> :
     nullable \in BOOLEAN, pk \in {<<"id">>, << >>},
     fa \in {<< >>, <<FK(<<"ref">>, "b", <<"id">>)>>},
     fb \in {<< >>, <<FK(<<"ref">>, "a", <<"id">>)>>}}
Probabilities == {Undef, Num(0), Num(2)}
NullProbabilities ==
  {NotConfigured}
  \cup {[configured |-> TRUE, default |-> d,
         tables |-> [t \in {"a"} |->
                       [default |-> td, columns |-> [c \in {"ref"} |-> cd]]]] :
          d \in Probabilities, td \in Probabilities, cd \in Probabilities}
NullConfigs ==
  [globalRowCount : {1},
   perTable : [{"a", "b"} -> {Num(n) : n \in 1..MaxRows}],
   nullProbability : NullProbabilities,
   seed : NullSeeds]

InitNull ==
  /\ NoJobs
  /\ schema \in NullSchemas
  /\ given \in NullConfigs
  /\ data = << >>
  /\ phase = "called"
  /\ out = << >>

NextNull == GenerateDeterministic

SpecNull == InitNull /\ [][NextNull]_vars


(***************************************************************************)
(* Claims                                                                  *)
(***************************************************************************)
NonTerminalJobs == {j \in DOMAIN jobs : jobs[j].status \notin TerminalStatuses}

\* C1: at any time at most MAX_CONCURRENT_GENERATIONS jobs started through
\* POST /api/generate are in a non-terminal state
C1_AtMostMaxConcurrent ==
  Cardinality(NonTerminalJobs) <= MAX_CONCURRENT_GENERATIONS

\* C2: in AI mode, a cancel accepted after table k's table-complete and before
\* the iteration of table k+1 leaves the job without result, on its way to
\* 'cancelled' and ended 'cancelled', with no external call started and no rows
\* produced for any table after k
C2_CancelAtTableBoundary ==
  \A j \in DOMAIN exec :
    LET e == exec[j] IN
    e.cancelAt > 0 =>
      /\ \A t \in TableIdx :
           t > e.cancelAt => e.calls[t] = 0 /\ t \notin e.generated /\ e.rows[t] = 0
      /\ jobs[j].result = NoResult
      /\ jobs[j].status \in {"cancelling", "cancelled"}
      /\ e.pc = "done" => jobs[j].status = "cancelled"

C2_Witness ==
  \E j \in DOMAIN exec :
    /\ useAI
    /\ exec[j].cancelAt > 0
    /\ exec[j].nTables >= 2
    /\ exec[j].pc = "done"
    /\ jobs[j].status = "cancelled"

\* C3: once cancelJob has returned true for a job (its cancelled flag is set),
\* the job never is 'completed' and never has a result
C3_CancelledNeverCompleted ==
  \A j \in DOMAIN jobs :
    jobs[j].cancelled => jobs[j].status # "completed" /\ ~jobs[j].result.set

\* a step keeps every job's status within statuses and changes it only along
\* transitions; a job enters the registry as 'running' (createJob's 'created'
\* is replaced before generateAsync returns)
StatusStep(statuses, transitions) ==
  \A j \in DOMAIN jobs' :
    /\ jobs'[j].status \in statuses
    /\ IF j \in DOMAIN jobs
         THEN \/ jobs'[j].status = jobs[j].status
              \/ <<jobs[j].status, jobs'[j].status>> \in transitions
         ELSE <<"created", jobs'[j].status>> \in transitions

C5_ErrorOnlyFromParseFailure ==
  \A j \in DOMAIN jobs :
    jobs[j].status = "error" => exec[j].thrownAt \in {"parseDDL", "noTables"}

\* C6: a job's progress lies in [0,1] and never decreases
C6_ProgressMonotone ==
  [][\A j \in DOMAIN jobs' :
       /\ jobs'[j].progress >= 0
       /\ jobs'[j].progress <= ProgressDen
       /\ j \in DOMAIN jobs => jobs'[j].progress >= jobs[j].progress]_vars

C6_Witness ==
  \E j \in DOMAIN jobs :
    /\ jobs[j].cancelled
    /\ jobs[j].progress > ProgressUnit
    /\ jobs[j].progress < ValidatedProgress
    /\ exec[j].pc = "tableStart"

\* generateSyntheticData has returned its dataset
Returned(j) == exec[j].pc = "done" /\ exec[j].thrownAt = "none"

\* C7 as stated: when generateSyntheticData returns in AI mode every table of
\* the schema has at least one row
C7_EveryTableHasRows ==
  \A j \in DOMAIN exec :
    useAI /\ Returned(j) =>
      \A t \in 1..exec[j].nTables : exec[j].rows[t] >= 1

\* C7 amended: when generateSyntheticData returns in AI mode every table whose
\* definition has a columns object has at least one row; a table without one
\* is skipped and left empty
C7_EveryTableWithColumnsHasRows ==
  \A j \in DOMAIN exec :
    useAI /\ Returned(j) =>
      \A t \in 1..exec[j].nTables :
        IF exec[j].hasColumns[t] THEN exec[j].rows[t] >= 1 ELSE exec[j].rows[t] = 0

C7_Witness ==
  \E j \in DOMAIN exec :
    /\ useAI
    /\ Returned(j)
    /\ exec[j].nTables = MaxTables
    /\ \E t \in exec[j].fallback : exec[j].calls[t] = 2 /\ exec[j].rows[t] >= 1
    /\ \E t \in 1..exec[j].nTables : t \notin exec[j].fallback /\ exec[j].rows[t] >= 1

\* the advisory row count as C8 states it: the override if present, else
\* numRecords (10 when absent), clamped to [1, MAX_ROWS_PER_TABLE]
AdvisoryAsStated(numRecords, override) ==
  LET v == IF override.def THEN override.n
           ELSE IF numRecords.def THEN numRecords.n ELSE DEFAULT_NUM_RECORDS
  IN  Min(Max(1, v), MAX_ROWS_PER_TABLE)

\* the advisory row count with a count of 0 taken as absent
AdvisoryZeroAbsent(numRecords, override) ==
  LET v == IF override.def /\ override.n # 0 THEN override.n
           ELSE IF numRecords.def /\ numRecords.n # 0 THEN numRecords.n
           ELSE DEFAULT_NUM_RECORDS
  IN  Min(Max(1, v), MAX_ROWS_PER_TABLE)

BothAttemptsEmpty(j, t) == t \in exec[j].fallback /\ exec[j].calls[t] = 2

\* C8 as stated: a table whose first attempt and retry both yielded no usable
\* rows ends with the advisory row count, 0 clamped to 1 like any other count
C8_FallbackRowCountAsStated ==
  \A j \in DOMAIN exec : \A t \in TableIdx :
    BothAttemptsEmpty(j, t) =>
      exec[j].rows[t] = AdvisoryAsStated(exec[j].req.numRecords, exec[j].req.perTable[t])

\* C8 amended: such a table ends with the per-table override if present and
\* not 0, else numRecords if present and not 0, else 10, clamped to
\* [1, MAX_ROWS_PER_TABLE] (integer counts)
C8_FallbackRowCount ==
  \A j \in DOMAIN exec : \A t \in TableIdx :
    BothAttemptsEmpty(j, t) =>
      exec[j].rows[t] = AdvisoryZeroAbsent(exec[j].req.numRecords, exec[j].req.perTable[t])

C8_Witness ==
  \E j \in DOMAIN exec : \E t \in TableIdx :
    /\ BothAttemptsEmpty(j, t)
    /\ exec[j].req.perTable[t] = Num(MAX_ROWS_PER_TABLE + 1)
    /\ exec[j].req.numRecords = Num(2)
    /\ exec[j].rows[t] = MAX_ROWS_PER_TABLE

\* what autoRepairForeignKeys returned with
KeyColumn(name) == inferSinglePK(name, Def(schema, name))
KeyedTables == {name \in TableNames(schema) : KeyColumn(name) # NoColumn}
SimpleForeignKeys ==
  {<<name, fk>> \in
     UNION {{<<schema[k].name, schema[k].foreignKeys[f]>> :
               f \in 1..Len(schema[k].foreignKeys)} : k \in 1..Len(schema)} :
     Len(fk.columns) = 1 /\ Len(fk.referenceColumns) = 1}

\* C9: after autoRepairForeignKeys, in every table with a declared or
\* inferable single-column primary key, every row's key value is non-null
\* and no two rows share a key value.
C9_KeysUniqueNonNull ==
  phase = "returned" =>
    \A name \in KeyedTables :
      LET rows == data[name]
          pk == KeyColumn(name)
      IN  /\ \A k \in 1..Len(rows) : ~IsNull(Get(rows[k], pk))
          /\ \A k, m \in 1..Len(rows) :
               k # m => Get(rows[k], pk) # Get(rows[m], pk)

\* C10: after autoRepairForeignKeys, for every simple single-column foreign
\* key of a non-empty child table whose parent has a declared or inferable
\* single-column key, every child row's value is one of the parent's key
\* values at the end of the repair, and the validator reports no violation
\* for the foreign key.
C10_ForeignKeysCovered ==
  phase = "returned" =>
    \A cf \in SimpleForeignKeys :
      LET child == cf[1]
          fk == cf[2]
          parent == fk.referenceTable
      IN  (Len(data[child]) > 0 /\ parent \in KeyedTables) =>
            /\ \A k \in 1..Len(data[child]) :
                 Get(data[child][k], fk.columns[1]) \in
                   ColumnValues(data[parent], KeyColumn(parent))
            /\ fkViolations(data, child, fk, 1) = {}

\* the tables from which t is reached along foreign keys (self-references
\* left out): its parents, their parents, ...
RECURSIVE Ancestors(_, _, _)
Ancestors(tables, found, k) ==
  IF k = 0 THEN found
  ELSE Ancestors(tables,
         found \cup UNION {Parents(tables, p) : p \in found}, k - 1)
InCycle(tables, t) ==
  t \in Ancestors(tables, Parents(tables, t), Len(tables))
Position(ordered, t) == CHOOSE k \in 1..Len(ordered) : ordered[k] = t
ParentsFirst(tables, ordered) ==
  \A t \in TableNames(tables) :
    ~InCycle(tables, t) =>
      \A p \in Parents(tables, t) : Position(ordered, p) < Position(ordered, t)

\* C12: in the order a dependency orderer returns, every table that is not
\* part of a foreign-key cycle comes after each of its parent tables
C12_ParentsBeforeAcyclicChild ==
  phase = "returned" =>
    /\ ParentsFirst(schema, data.deterministic)
    /\ ParentsFirst(schema, data.ai)

\* C11: two calls of generateDeterministicData with the same seed, schema and
\* config return the same dataset
C11_SameSeedSameData ==
  phase = "twice" => data[1] = data[2]

\* every foreign key of the schema with the table that declares it
ForeignKeys ==
  UNION {{<<schema[k].name, schema[k].foreignKeys[f]>> :
            f \in 1..Len(schema[k].foreignKeys)} : k \in 1..Len(schema)}

\* C14: in a dataset generateDeterministicData returned, for every foreign
\* key whose parent has a row with a non-null referenced value, every child
\* row's value is one of the parent's referenced values and the validator
\* counts no violation
C14_GeneratedForeignKeysValid ==
  \A r \in 1..Len(data) : \A cf \in ForeignKeys :
    LET child == cf[1]
        fk == cf[2]
        referenced == ColumnValues(data[r][fk.referenceTable], fk.referenceColumns[1])
    IN  referenced # {} =>
          /\ \A k \in 1..Len(data[r][child]) :
               Get(data[r][child][k], fk.columns[1]) \in referenced
          /\ fkViolations(data[r], child, fk, 1) = {}

C15_OneCallInFlight ==
  \A j \in DOMAIN exec : Cardinality(exec[j].inFlight) <= 1

\* C16: once cancelJob has returned true for a job, no external generative
\* call is started for it any more: neither a first attempt for a further
\* table nor a retry for the table whose call was in flight.
C16_NoCallStartedAfterCancel ==
  [][\A j \in DOMAIN exec :
       jobs[j].cancelled => exec'[j].calls = exec[j].calls]_vars

\* C17: within one job the tables are started in the order of the dependency
\* orderer; every table-start is followed, before the next table-start (or
\* the end of the table loop), by exactly one table-complete and one progress
\* event of the same table; the ratio reported after the i-th of n tables is
\* i/n.
Starts(events) == {k \in 1..Len(events) : events[k].event = "tableStart"}
NextStart(events, k) ==
  IF \E m \in Starts(events) : m > k
    THEN CHOOSE m \in Starts(events) : m > k /\ \A x \in Starts(events) : x > k => m <= x
    ELSE Len(events) + 1
LoopOver(e) == e.pc \in {"generated", "saving", "done"}
C17_TableEventsPaired ==
  \A j \in DOMAIN exec :
    LET e == exec[j]
        events == e.events
    IN  \A k \in Starts(events) :
          /\ events[k].index = Cardinality({m \in Starts(events) : m <= k})
          /\ (NextStart(events, k) <= Len(events) \/ LoopOver(e))
               => /\ NextStart(events, k) = k + 3
                  /\ events[k + 1] = onTableComplete(events[k].index, e.nTables)
                  /\ events[k + 2] = progressEvent(events[k].index, e.nTables)
                  /\ events[k + 2].ratio = <<events[k].index, e.nTables>>

\* C18: in the streaming path the table:progress chunks of a table are
\* emitted in row order, each starting where the one before ended, with
\* strictly increasing delivered counts that end at total; table:complete of
\* the table comes after its last chunk and before the next table:start.
EventsOf(kind, t) ==
  {k \in 1..Len(out) : out[k].event = kind /\ out[k].table = t}
TableEvents ==
  {k \in 1..Len(out) : out[k].event \in {"table:start", "table:progress",
                                         "table:ai_fallback", "table:complete"}}
RowsBefore(k, t) ==
  {r \in 1..MaxStreamRows :
     \E m \in EventsOf("table:progress", t) :
       m < k /\ \E x \in 1..Len(out[m].chunk) : out[m].chunk[x] = r}
C18_ChunksInOrderThenComplete ==
  \A t \in 1..Len(schema) : \A c \in EventsOf("table:complete", t) :
    LET progress == EventsOf("table:progress", t)
    IN  /\ \A k \in progress :
             /\ k < c
             /\ out[k].chunk = [x \in 1..Len(out[k].chunk) |->
                                  Cardinality(RowsBefore(k, t)) + x]
             /\ \A m \in progress : m < k => out[m].delivered < out[k].delivered
             /\ (\A m \in progress : m <= k)
                  => out[k].delivered = out[k].total
             /\ out[k].total = InHalves(out[c].rows)
        /\ out[c].rows > 0 => progress # {}
        /\ \A k \in TableEvents : k < c => out[k].table <= t
        /\ \A k \in TableEvents : k > c => out[k].table > t

\* C19: when the parser recovers no table and its AI fallback is unavailable,
\* disabled or fails (parse throws, or hands back a schema of no tables), a
\* job that was not cancelled ends with status 'error' and no result, with
\* USE_AI on and off alike.
NoTableRecovered(j) ==
  /\ exec[j].pc = "done"
  /\ exec[j].nTables = 0
  /\ exec[j].thrownAt \in {"none", "noTables", "saveDataset"}
  /\ ~jobs[j].cancelled
C19_NoTablesEndsInError ==
  \A j \in DOMAIN exec :
    NoTableRecovered(j) =>
      jobs[j].status = "error" /\ jobs[j].result = NoResult

\* C20: for a job submitted without config.integrityRepair, no value of the
\* generated dataset is rewritten between generation and validation, and the
\* result carries no repair audit.
C20_NoRepairUnlessEnabled ==
  (phase.pc \in {"repaired", "validated"} /\ ~phase.config.integrityRepair)
    => /\ data = given
       /\ ~out.autoFixForeignKeys

\* C21: a job that ends 'completed' carries in its result the validation
\* report of the final dataset: the rows as they stand after normalization
\* and repair, the same rows that were handed to saveDataset.  Violations make
\* no job fail: a job ends in 'error' here only when saveDataset rejected.
ReportOf(tables, rows) ==
  [tables |-> [k \in 1..Len(tables) |->
                 [name |-> tables[k].name, report |-> tableReport(rows, tables[k])]],
   summary |->
     [pkDuplicates |->
        SumOf([k \in 1..Len(tables) |-> tableReport(rows, tables[k])], "pkDuplicates"),
      fkViolations |->
        SumOf([k \in 1..Len(tables) |-> tableReport(rows, tables[k])], "fkViolations"),
      notNullViolations |->
        SumOf([k \in 1..Len(tables) |-> tableReport(rows, tables[k])],
              "notNullViolations")]]
C21_CompletedCarriesFinalValidation ==
  /\ out.status = "completed"
       => /\ out.result = ReportOf(schema, data)
          /\ phase.config.saveName
               => out.saved = [called |-> TRUE, data |-> data,
                               validation |-> out.result]
  /\ out.status = "error" => out.saved.called
C21_Witness ==
  /\ out.status = "completed"
  /\ phase.config.saveName
  /\ data # given
  /\ out.result.summary.fkViolations + out.result.summary.pkDuplicates > 0
  /\ out.result.summary.notNullViolations > 0

C23_AtMostOneRetry ==
  [][\A j \in DOMAIN exec :
       LET e == exec[j]
           f == exec'[j]
       IN  /\ \A t \in TableIdx :
                /\ f.calls[t] <= 2
                /\ f.calls[t] = 2 => f.firstRows[t] = 0
                /\ f.firstRows[t] > 0 => f.calls[t] = 1 /\ t \notin f.fallback
           /\ (e.pc = "call1" /\ f.pc # "call1")
                => \/ f.pc = "retry" /\ f.calls[e.i] = 2 /\ f.firstRows[e.i] = 0
                   \/ /\ f.pc = "tableComplete"
                      /\ f.calls[e.i] = 1
                      /\ f.rows[e.i] = f.firstRows[e.i]
                      /\ f.rows[e.i] > 0
           /\ (e.pc = "retry" /\ f.pc # "retry")
                => /\ f.pc = "tableComplete"
                   /\ f.calls = e.calls
                   /\ f.rows[e.i] > 0
                   /\ e.i \in f.fallback \/ f.rows[e.i] <= MaxAIRows]_vars
C23_Witness ==
  \E j \in DOMAIN exec :
    /\ exec[j].pc = "done"
    /\ exec[j].nTables = 2
    /\ exec[j].calls[1] = 2 /\ 1 \in exec[j].fallback
    /\ exec[j].calls[2] = 1 /\ exec[j].firstRows[2] > 0

\* C24: for every configured temperature in [0, 1] the retry of a table uses
\* a sampling temperature lower than that of the first attempt.
C24_RetryTemperatureLower ==
  (phase = "returned" /\ given.def /\ given.n \in 0..TempUnit)
    => out.retry < out.first.n

\* the tables not yet placed before position k whose parents are all placed
Placed(ordered, k) == {ordered[i] : i \in 1..(k - 1)}
Available(tables, ordered, k) ==
  {t \in TableNames(tables) \ Placed(ordered, k) :
     Parents(tables, t) \subseteq Placed(ordered, k)}
DeclaredAt(tables, t) == CHOOSE k \in 1..Len(tables) : tables[k].name = t
StableOrder(tables, ordered) ==
  \A k \in 1..Len(ordered) :
    LET avail == Available(tables, ordered, k)
    IN  avail # {} =>
          /\ ordered[k] \in avail
          /\ \A t \in avail : DeclaredAt(tables, ordered[k]) <= DeclaredAt(tables, t)

\* C25: at every position of the order a dependency orderer returns, among
\* the tables whose parents have all been placed already, the table declared
\* earliest in the schema is the one placed next.
C25_EarliestAvailableNext ==
  phase = "returned" =>
    /\ StableOrder(schema, data.deterministic)
    /\ StableOrder(schema, data.ai)

\* a table is resolvable when neither it nor any table it depends on, directly
\* or through other tables, is part of a foreign-key cycle
Resolvable(tables, t) ==
  /\ ~InCycle(tables, t)
  /\ \A p \in Ancestors(tables, Parents(tables, t), Len(tables)) :
       ~InCycle(tables, p)
EachTableOnce(tables, ordered) ==
  /\ Len(ordered) = Len(tables)
  /\ {ordered[k] : k \in 1..Len(ordered)} = TableNames(tables)
CyclesLast(tables, ordered) ==
  \A c \in TableNames(tables) :
    InCycle(tables, c) =>
      /\ \A r \in TableNames(tables) :
           Resolvable(tables, r) => Position(ordered, r) < Position(ordered, c)
      /\ \A d \in TableNames(tables) :
           (InCycle(tables, d) /\ DeclaredAt(tables, c) < DeclaredAt(tables, d))
             => Position(ordered, c) < Position(ordered, d)

\* C26: for every schema, with foreign-key cycles, self-references and
\* foreign keys to undeclared tables included, a dependency orderer returns
\* each table of the schema exactly once, with the tables of cycles after
\* every resolvable table and in their declaration order.
C26_EachTableOnceCyclesLast ==
  phase = "returned" =>
    /\ EachTableOnce(schema, data.deterministic)
    /\ CyclesLast(schema, data.deterministic)
    /\ EachTableOnce(schema, data.ai)
    /\ CyclesLast(schema, data.ai)
C26_Witness ==
  /\ phase = "returned"
  /\ InCycle(schema, "t1") /\ InCycle(schema, "t2")
  /\ Len(schema[3].foreignKeys) = 1
  /\ schema[3].foreignKeys[1].referenceTable \in {"t3", "elsewhere"}
  /\ data.deterministic = <<"t3", "t1", "t2">>
  /\ data.ai = <<"t3", "t1", "t2">>

\* the key column of the rows, and the four conditions of the rewrite stated
\* on the column as a whole
KeyValues(rows, pkCol) == [k \in 1..Len(rows) |-> Get(rows[k], pkCol)]
KeyColumnInvalid(rows, pkCol) ==
  LET vals == KeyValues(rows, pkCol) IN
  \/ \E k \in 1..Len(vals) : IsNull(vals[k])
  \/ \E k \in 1..Len(vals) : vals[k].type = "string" /\ vals[k].len > LongString
  \/ \E k, m \in 1..Len(vals) : k # m /\ vals[k] = vals[m]
  \/ \A k \in 1..Len(vals) : vals[k].type # "number"
KeyColumnRewrittenOrKept(name) ==
  LET pkCol == KeyColumn(name)
      before == KeyValues(given[name], pkCol)
      after == KeyValues(data[name], pkCol)
  IN  IF KeyColumnInvalid(given[name], pkCol)
        THEN after = [k \in 1..Len(given[name]) |-> N(k)]
        ELSE after = before

\* C27: autoRepairForeignKeys overwrites the key column of a non-empty table
\* with 1..n in row order exactly when some key value is null, is a string
\* longer than 40 characters, is duplicated, or no value of the column is a
\* number; in every other case every key value of the table is left as it
\* was.
C27_KeyColumnRewrittenExactlyWhenInvalid ==
  phase = "returned" =>
    \A name \in KeyedTables :
      Len(given[name]) > 0 => KeyColumnRewrittenOrKept(name)

\* C28: after autoRepairForeignKeys, every table that had no rows and has a
\* declared or heuristically inferable single-column key holds exactly one
\* row, whose key value is 1.
C28_EmptyKeyedTableGetsOneRow ==
  phase = "returned" =>
    \A name \in KeyedTables :
      Len(given[name]) = 0 =>
        /\ Len(data[name]) = 1
        /\ Get(data[name][1], KeyColumn(name)) = N(1)

\* the dataset as pass 1 leaves it, the distinct key values of a parent in
\* its row order, and the rows of a child whose value in a foreign-key column
\* is null or none of these values, in row order
AfterPass1 == pass1(schema, synthesizeParents(schema, given, 1), 1)
RECURSIVE FirstOccurrences(_, _)
FirstOccurrences(vals, k) ==
  IF k > Len(vals) THEN << >>
  ELSE IF IsNull(vals[k]) \/ (\E m \in 1..(k - 1) : vals[m] = vals[k])
    THEN FirstOccurrences(vals, k + 1)
    ELSE <<vals[k]>> \o FirstOccurrences(vals, k + 1)
ParentKeys(parent) ==
  FirstOccurrences(KeyValues(AfterPass1[parent], KeyColumn(parent)), 1)
RowsToRewrite(child, col, keys) ==
  SelectSeq([k \in 1..Len(AfterPass1[child]) |-> k],
            LAMBDA k : LET v == Get(AfterPass1[child][k], col)
                       IN  IsNull(v) \/ ~InSeq(v, keys))
TimesGiven(child, col, rewritten, key) ==
  Cardinality({x \in 1..Len(rewritten) :
                 Get(data[child][rewritten[x]], col) = key})
RoundRobin(child, fk) ==
  LET col == fk.columns[1]
      keys == ParentKeys(fk.referenceTable)
      n == Len(keys)
      rewritten == RowsToRewrite(child, col, keys)
  IN  n > 0 =>
        /\ \A x \in 1..Len(rewritten) :
             Get(data[child][rewritten[x]], col) = keys[((x - 1) % n) + 1]
        /\ \A k \in 1..Len(data[child]) :
             ~InSeq(k, rewritten) =>
               Get(data[child][k], col) = Get(AfterPass1[child][k], col)
        /\ \A p, q \in 1..n :
             TimesGiven(child, col, rewritten, keys[p])
               <= TimesGiven(child, col, rewritten, keys[q]) + 1

\* C29: within one child table and foreign-key column, the k-th row in row
\* order (k = 0, 1, 2, ...) whose value is rewritten receives the parent key
\* value at index k mod n of the parent's n distinct key values taken in
\* parent row order; the other rows keep their value, and the numbers of rows
\* given to two parent keys differ by at most one.
C29_RoundRobinOverParentKeys ==
  phase = "returned" =>
    \A cf \in SimpleForeignKeys :
      (Len(given[cf[1]]) > 0 /\ cf[2].referenceTable \in KeyedTables)
        => RoundRobin(cf[1], cf[2])
C29_Witness ==
  /\ phase = "returned"
  /\ schema[2].foreignKeys = <<FK(<<"ref">>, "a", <<"id">>)>>
  /\ KeyValues(given.a, "id") = <<N(2), N(1)>>
  /\ KeyValues(given.b, "ref") = <<Null, N(3)>>
  /\ KeyValues(data.b, "ref") = <<N(2), N(1)>>

\* the columns the DDL declares as ENUM with at least one non-empty value
EnumColumns ==
  {x \in {<<given.ddl[b].table, given.ddl[b].lines[l].column,
            enumVals(given.ddl[b].lines[l].type.list)>> :
            b \in 1..Len(given.ddl), l \in 1..2} :
     x[3] # << >>}

\* C30: for a column declared in the DDL as ENUM('a','b',...), the schema
\* that parse returns gives the column a text type, records the permitted
\* values as the column's enumValues, and lists them under
\* meta.enums[table][column].
C30_EnumBecomesTextWithValues ==
  phase = "returned" =>
    \A x \in EnumColumns :
      LET t == x[1]
          c == x[2]
      IN  /\ t \in DOMAIN data.tables
          /\ c \in DOMAIN data.tables[t].columns
          /\ toLowerCase(data.tables[t].columns[c].type) = "text"
          /\ "enumValues" \in DOMAIN data.tables[t].columns[c]
          /\ data.tables[t].columns[c].enumValues = x[3]
          /\ "enums" \in DOMAIN data.meta
          /\ t \in DOMAIN data.meta.enums
          /\ c \in DOMAIN data.meta.enums[t]
          /\ data.meta.enums[t][c] = x[3]

\* the order of the cascade, the first combination of a block's grammar that
\* gives the table, and the warnings that name a table
CascadeVariants == <<"original-block", "strip-check", "strip-enum", "strip-comments">>
CascadeDialects == <<"PostgreSQL", "MySQL">>
FirstYield(b) ==
  CHOOSE c \in given.grammars[b].yields : \A x \in given.grammars[b].yields : c <= x
WarningsOf(t) ==
  {data.meta.parseWarnings[k] : k \in 1..Len(data.meta.parseWarnings)}
    \cap [type : {"dialect-detection", "block-simplified", "regex-salvage"},
          table : {t},
          detail : {CascadeVariants[k] : k \in 1..4} \cup {"MySQL", "PostgreSQL", ""}]
DeclaredColumns(b) == {given.ddl[b].lines[l].column : l \in 1..Len(given.ddl[b].lines)}
TakenFrom(b, variant, dialect) ==
  LET t == given.ddl[b].table IN
  /\ WarningsOf(t) =
       (IF dialect = "PostgreSQL" THEN {}
        ELSE {Warning("dialect-detection", t, dialect)})
       \cup (IF variant = "original-block" THEN {}
             ELSE {Warning("block-simplified", t, variant)})
  /\ \A c \in DeclaredColumns(b) :
       data.tables[t].columns[c].type \in {"INT", "TEXT"}
Salvaged(b) ==
  LET t == given.ddl[b].table IN
  /\ WarningsOf(t) = {Warning("regex-salvage", t, "")}
  /\ \A c \in DeclaredColumns(b) :
       data.tables[t].columns[c].type \in {"int", "text"}

\* C31: for each CREATE TABLE block the parser tries the variants original,
\* checks-stripped, enums-stripped, comments-stripped in that order, each
\* with the PostgreSQL grammar and then the MySQL grammar, and takes the
\* table definition from the first combination that yields a definition for
\* the block's table; when none does, the definition is the regex-salvaged
\* one.  Every block contributes exactly one table definition, with a
\* column map.
C31_FirstYieldingCombinationOrSalvage ==
  phase = "returned" =>
    /\ DOMAIN data.tables = {given.ddl[b].table : b \in 1..Len(given.ddl)}
    /\ \A b \in 1..Len(given.ddl) :
         /\ DOMAIN data.tables[given.ddl[b].table].columns = DeclaredColumns(b)
         /\ IF given.grammars[b].yields = {} THEN Salvaged(b)
            ELSE TakenFrom(b, CascadeVariants[((FirstYield(b) - 1) \div 2) + 1],
                           CascadeDialects[((FirstYield(b) - 1) % 2) + 1])
C31_Witness ==
  /\ phase = "returned"
  /\ Len(given.ddl) = 2
  /\ given.grammars[1].yields = {4, 5}
  /\ given.grammars[1].failure = <<"other", "throws">>
  /\ given.grammars[2].yields = {}
  /\ WarningsOf("t1") = {Warning("dialect-detection", "t1", "MySQL"),
                         Warning("block-simplified", "t1", "strip-check")}
  /\ WarningsOf("t2") = {Warning("regex-salvage", "t2", "")}

\* the null probability in force for a column: that of the column, else the
\* default of its table, else the global default, else 0
Configured(v) == given.nullProbability.configured /\ v.def
EffectiveNullProbability(t, c) ==
  LET np == given.nullProbability
      ofTable == t \in DOMAIN np.tables
      ofColumn == ofTable /\ c \in DOMAIN np.tables[t].columns
  IN  IF ofColumn /\ Configured(np.tables[t].columns[c]) THEN np.tables[t].columns[c].n
      ELSE IF ofTable /\ Configured(np.tables[t].default) THEN np.tables[t].default.n
      ELSE IF Configured(np.default) THEN np.default.n
      ELSE 0
MayBeNull(t, c) ==
  LET colDef == Def(schema, t).columns[CHOOSE k \in 1..2 : Def(schema, t).columns[k].name = c]
  IN  /\ ("nullable" \in DOMAIN colDef => colDef.nullable)
      /\ ~InSeq(c, inferPrimaryKey(t, Def(schema, t)))
      /\ EffectiveNullProbability(t, c) > 0

\* C32: in the output of generateDeterministicData a value is null (or
\* missing) only if its column is nullable, is not part of the declared or
\* inferred primary key, and has an effective null probability greater than
\* 0, the probability of the column taking precedence over the default of
\* the table and that over the global default 0.
C32_NullOnlyWhereAllowed ==
  phase \in {"once", "twice"} =>
    \A n \in 1..Len(data) : \A t \in DOMAIN data[n] :
      \A k \in 1..Len(data[n][t]) : \A c \in {"id", "ref"} :
        IsNull(Get(data[n][t][k], c)) => MayBeNull(t, c)

\* C33: for every table definition inferSinglePK and inferPrimaryKey identify
\* the same key: the declared key, else an integer column named id, else an
\* integer column ending in _id, else none.
C33_SameKeyInferred ==
  phase = "returned" =>
    IF out.repairer = NoColumn THEN out.generator = << >>
    ELSE out.generator = <<out.repairer>>

\* C34: after normalizeDataset the dataset holds exactly the tables of the
\* schema, and every row of every table has exactly the column names of the
\* table as its keys, for any input rows.
ColumnNamesOf(t) ==
  {Def(schema, t).columns[x].name : x \in 1..Len(Def(schema, t).columns)}
C34_RowsHaveExactlyTheColumns ==
  (phase = "returned" /\ given # Null) =>
    /\ DOMAIN data = TableNames(schema)
    /\ \A t \in TableNames(schema) : \A k \in 1..Len(data[t]) :
         DOMAIN data[t][k] = ColumnNamesOf(t)

\* C35: once the status of a job is completed, error or cancelled, its
\* status, error, result and progress never change again, whatever cancel
\* requests, progress callbacks and ticks of the lifecycle monitor follow.
C35_TerminalJobNeverChanges ==
  [][\A j \in DOMAIN jobs :
       jobs[j].status \in TerminalStatuses =>
         /\ j \in DOMAIN jobs'
         /\ jobs'[j].status = jobs[j].status
         /\ jobs'[j].error = jobs[j].error
         /\ jobs'[j].result = jobs[j].result
         /\ jobs'[j].progress = jobs[j].progress]_vars
C35_Witness ==
  /\ 1 \in DOMAIN jobs
  /\ jobs[1].status = "cancelled"
  /\ lastResponse = 400
  /\ EmittedFor(1).completed = 1

\* GET /api/jobs/:id: what a poller is answered for a job
getJobResponse(job) ==
  [status |-> job.status, progress |-> job.progress, error |-> job.error,
   result |-> IF job.result.set
                THEN [set |-> TRUE, datasetId |-> job.result.datasetId,
                      validation |-> job.result.violations,
                      normalizationError |-> job.result.repair = "normalizationError"]
                ELSE NoResult]

\* C36: in every state a poller can observe, a job with status 'completed'
\* has a result and progress 1, and a job with status 'error' or 'cancelled'
\* has no result and an error.
C36_TerminalJobIsConsistent ==
  \A j \in DOMAIN jobs :
    LET answer == getJobResponse(jobs[j]) IN
    /\ answer.status = "completed" =>
         answer.result # NoResult /\ answer.progress = ProgressDen
    /\ answer.status \in {"error", "cancelled"} =>
         answer.result = NoResult /\ answer.error # NoError
C36_Witness ==
  /\ 1 \in DOMAIN jobs
  /\ getJobResponse(jobs[1]).status = "error"
  /\ getJobResponse(jobs[1]).progress = ValidatedProgress
  /\ exec[1].thrownAt = "saveDataset"

\* C37: a job ends with the status 'cancelled' only if cancelJob was called
\* for it; a failure of parsing, generation or persistence of a job that
\* nobody cancelled never yields 'cancelled'.
C37_CancelledOnlyWhenCancelRequested ==
  \A j \in DOMAIN jobs : jobs[j].status = "cancelled" => jobs[j].cancelled

\* C38: the lifecycle monitor runs at most one polling chain per job at a
\* time; once the job has reached a terminal status it broadcasts exactly
\* one job:completed event, and no job:status event after it.
C38_OneChainOneCompletedEvent ==
  /\ [](\A j \in DOMAIN jobs :
          /\ TimersOf(timers, j) <= 1
          /\ (j \in jobWatchers) = (TimersOf(timers, j) = 1)
          /\ EmittedFor(j).completed <= 1
          /\ EmittedFor(j).completed = 1 => jobs[j].status \in TerminalStatuses
          /\ ~EmittedFor(j).statusAfterCompleted)
  /\ ((1 \in DOMAIN jobs /\ jobs[1].status \in TerminalStatuses)
        ~> (EmittedFor(1).completed = 1 /\ TimersOf(timers, 1) = 0))
C38_Witness ==
  /\ 1 \in DOMAIN jobs
  /\ jobs[1].status = "completed"
  /\ EmittedFor(1).completed = 1
  /\ SubscribersOf(jobSubscribers, 1) = Sockets
  /\ 1 \notin jobWatchers

\* C39: every job started by generateAsync eventually reaches a terminal
\* status (completed, error or cancelled), even when the external service
\* never answers a call.
JobEnded(j) == j \in DOMAIN jobs /\ jobs[j].status \in TerminalStatuses
C39_EveryJobEnds == (1 \in DOMAIN jobs) ~> JobEnded(1)

\* C40: in a dataset generateDeterministicData returned, every table with a
\* declared or inferred primary key has, in each numeric column of the key,
\* the value i+1 in row i (so its key tuples are unique and non-null), also
\* when a key column is a foreign-key column and after the reconciliation
\* pass has run.
NumericKeyColumns(tblDef) ==
  LET pkCols == inferPrimaryKey(tblDef.name, tblDef) IN
  {tblDef.columns[x].name : x \in {y \in 1..Len(tblDef.columns) :
     /\ InSeq(tblDef.columns[y].name, pkCols)
     /\ IntOrSerial(tblDef.columns[y].type)}}
C40_NumericKeysSequential ==
  \A r \in 1..Len(data) : \A k \in 1..Len(schema) :
    \A i \in 1..Len(data[r][schema[k].name]) :
      \A c \in NumericKeyColumns(schema[k]) :
        data[r][schema[k].name][i][c] = N(i)

=============================================================================
